---------------------------- MODULE Spec2Model ----------------------------
(***************************************************************************)
(* A model of the SPADE risk agent (spade-risk-agent): the geolocation     *)
(* resolver, the crime data resolver, the scoring pipeline and the         *)
(* assess_risk request handler.                                            *)
(*                                                                         *)
(* Representation.                                                         *)
(*  - A Python str is a tuple of one-character strings, so that lower(),   *)
(*    strip(), concatenation and the substring test `in` are computed.     *)
(*  - A Python float is a record [kind, v]: kind "num" carries the value   *)
(*    in units of 1/Scale degree (fixed point), "nan" is a non-finite      *)
(*    float, "none" is None, "bad" is a JSON value float() rejects.        *)
(*  - Optional[T] is <<>> (None) or <<x>>.                                 *)
(*  - A function that may raise returns [raised, val].                     *)
(***************************************************************************)
EXTENDS Integers, Sequences, FiniteSets, TLC

VARIABLES
    pc,            \* control position of the call being served
    api_key,       \* settings.GOOGLE_MAPS_API_KEY
    address,       \* argument of get_geolocation_info / get_crime_data
    variant,       \* index into address_variants of _geocode_with_nominatim
    calls,         \* external provider calls made so far, in order
    geo_result,    \* Optional: value returned by get_geolocation_info
    latitude,      \* latitude argument of get_crime_data
    longitude,     \* longitude argument of get_crime_data
    city,          \* city argument of get_crime_data (Optional str)
    crime_result,  \* Optional: value returned by get_crime_data
    strategy,      \* strategies get_crime_data has entered, in order
    crime_source,  \* compute_overall_score: Optional crime_data["source"]
    geo_source,    \* compute_overall_score: Optional geo_data["source"]
    dim,           \* the five dimension scores
    agg,           \* Optional: value returned by compute_overall_score
    payload,       \* assess_risk: the request body
    prop_data,     \* assess_risk: Optional value of get_property_info
    recommendations, \* assess_risk: Optional list of recommendations
    response,      \* assess_risk: Optional HTTP response
    replies,       \* _query_city_crime_api: the endpoint's answers to its requests
    random_state,  \* the generator of module random, shared by every request of the process
    inflight       \* concurrent requests: the locals of each assess_risk call

vars == <<pc, api_key, address, variant, calls, geo_result, latitude, longitude, city, crime_result, strategy, crime_source, geo_source, dim, agg, payload, prop_data, recommendations, response, replies, random_state, inflight>>

---------------------------------------------------------------------------
(* Python values *)

None == <<>>

Some(x) == <<x>>

Ret(x) == [raised |-> FALSE, val |-> x]

Raise == [raised |-> TRUE, val |-> None]

Scale == 10 ^ 4

F(v) == [kind |-> "num", v |-> v]

NaN == [kind |-> "nan", v |-> 0]

PyNone == [kind |-> "none", v |-> 0]

Bad == [kind |-> "bad", v |-> 0]

Abs(n) == IF n < 0 THEN -n ELSE n

Min(a, b) == IF a < b THEN a ELSE b

Max(a, b) == IF a > b THEN a ELSE b

\* float(x): a number or a non-finite float converts, None and junk raise
FloatRaises(x) == x.kind \in {"none", "bad"}

\* truth value of an Optional[float]: None and 0.0 are falsy, NaN is truthy
Truthy(x) == (x.kind = "nan") \/ (x.kind = "num" /\ x.v # 0)

\* abs(x) > bound for a float x and a bound in degrees; False for NaN
AbsGreater(x, bound) == x.kind = "num" /\ Abs(x.v) > bound * Scale

\* abs(x) < bound for a float x and a bound in degrees; False for NaN
AbsLess(x, bound) == x.kind = "num" /\ Abs(x.v) < bound * Scale

---------------------------------------------------------------------------
(* Python str *)

IsSpace(c) == c \in {" ", "\t"}

LowerChar(c) ==
    CASE c = "A" -> "a" [] c = "B" -> "b" [] c = "C" -> "c" [] c = "D" -> "d"
      [] c = "E" -> "e" [] c = "F" -> "f" [] c = "G" -> "g" [] c = "H" -> "h"
      [] c = "I" -> "i" [] c = "J" -> "j" [] c = "K" -> "k" [] c = "L" -> "l"
      [] c = "M" -> "m" [] c = "N" -> "n" [] c = "O" -> "o" [] c = "P" -> "p"
      [] c = "Q" -> "q" [] c = "R" -> "r" [] c = "S" -> "s" [] c = "T" -> "t"
      [] c = "U" -> "u" [] c = "V" -> "v" [] c = "W" -> "w" [] c = "X" -> "x"
      [] c = "Y" -> "y" [] c = "Z" -> "z" [] OTHER -> c

Lower(s) == [i \in 1..Len(s) |-> LowerChar(s[i])]

\* sub in s
Contains(sub, s) ==
    \E i \in 0..(Len(s) - Len(sub)) : \A j \in 1..Len(sub) : s[i + j] = sub[j]

Strip(s) ==
    LET keep == {i \in 1..Len(s) : ~IsSpace(s[i])}
    IN  IF keep = {} THEN <<>>
        ELSE LET lo == CHOOSE i \in keep : \A j \in keep : i <= j
                 hi == CHOOSE i \in keep : \A j \in keep : j <= i
             IN  SubSeq(s, lo, hi)

S_empty == <<>>

S_blank == <<" ", " ">>

S_elm == <<"9", " ", "E", "l", "m">>

S_new_york == <<"n", "e", "w", " ", "y", "o", "r", "k">>

S_Chicago == <<"C", "h", "i", "c", "a", "g", "o">>

S_chicago == <<"c", "h", "i", "c", "a", "g", "o">>

S_philadelphia == <<"p", "h", "i", "l", "a", "d", "e", "l", "p", "h", "i", "a">>

S_los_angeles == <<"l", "o", "s", " ", "a", "n", "g", "e", "l", "e", "s">>

S_san_francisco == <<"s", "a", "n", " ", "f", "r", "a", "n", "c", "i", "s", "c", "o">>

S_USA == <<",", " ", "U", "S", "A">>

S_United_States == <<",", " ", "U", "n", "i", "t", "e", "d", " ", "S", "t", "a", "t", "e", "s">>

S_comma == <<",", " ">>

S_US == <<"U", "S">>

S_Simulated == <<"S", "i", "m", "u", "l", "a", "t", "e", "d", " ">>

S_location == <<" ", "l", "o", "c", "a", "t", "i", "o", "n">>

S_urban == <<"u", "r", "b", "a", "n">>

S_suburban == <<"s", "u", "b", "u", "r", "b", "a", "n">>

S_rural == <<"r", "u", "r", "a", "l">>

S_nightclub == <<"n", "i", "g", "h", "t", "c", "l", "u", "b">>

S_warehouse == <<"w", "a", "r", "e", "h", "o", "u", "s", "e">>

S_school == <<"s", "c", "h", "o", "o", "l">>

StrOf(neighborhood) ==
    CASE neighborhood = "urban" -> S_urban
      [] neighborhood = "suburban" -> S_suburban
      [] OTHER -> S_rural

---------------------------------------------------------------------------
(* tools/geolocation_tool.py: neighborhood heuristics *)

\* a variant whose comparisons include the bounds
_classify_neighborhood_by_coords_inclusive(lat, lon) ==
    IF (lat.kind = "num" /\ Abs(lat.v) >= 40 * Scale) \/ (lon.kind = "num" /\ Abs(lon.v) <= 75 * Scale) THEN "urban"
    ELSE IF (lat.kind = "num" /\ Abs(lat.v) >= 35 * Scale) \/ (lon.kind = "num" /\ Abs(lon.v) <= 80 * Scale) THEN "suburban"
    ELSE "rural"

_classify_neighborhood_by_coords(lat, lon) ==
    IF AbsGreater(lat, 40) \/ AbsLess(lon, 75) THEN "urban"
    ELSE IF AbsGreater(lat, 35) \/ AbsLess(lon, 80) THEN "suburban"
    ELSE "rural"

_get_population_density(neighborhood_type) ==
    IF neighborhood_type = "urban" THEN 8000
    ELSE IF neighborhood_type = "suburban" THEN 3000
    ELSE 500

_get_nearby_risks(neighborhood_type) ==
    (IF neighborhood_type = "urban" THEN <<S_nightclub, S_warehouse>> ELSE <<>>)
        \o (IF neighborhood_type \in {"urban", "suburban"} THEN <<S_school>> ELSE <<>>)

\* the dict literal the three providers return
GeoDict(lat, lon, source, formatted) ==
    LET nt == _classify_neighborhood_by_coords(lat, lon)
    IN  [latitude |-> lat,
         longitude |-> lon,
         neighborhood_type |-> nt,
         population_density |-> _get_population_density(nt),
         nearby_risks |-> _get_nearby_risks(nt),
         source |-> source,
         formatted_address |-> formatted]

---------------------------------------------------------------------------
(* What the external geocoding services can answer *)

\* coordinates a provider may report, as <<lat, lon>> in 1/Scale degree
ProviderPoints ==
    { <<F(406782), F(-739442)>>,     \* Brooklyn 11212
      <<F(407800), F(-739700)>>,     \* Manhattan
      <<F(418781), F(-876298)>>,     \* Chicago
      <<F(300000), F(-900000)>>,     \* rural by the heuristic
      <<F(400000), F(-770000)>>,     \* latitude exactly 40: suburban
      <<F(0), F(0)>>,                \* 0.0, 0.0
      <<F(900000), F(1800000)>>,     \* the legal extremes
      <<F(950000), F(100000)>>,      \* latitude out of range
      <<F(100000), F(-1900000)>> }   \* longitude out of range

ProviderAddresses == {S_new_york, S_elm}

NoReply == [exc |-> "", status_code |-> 200, json |-> "invalid", status |-> "", items |-> <<>>]

\* requests.get raised, a non-200 status, or a body that is no JSON object
HttpFailures ==
    { [NoReply EXCEPT !.exc = "Timeout"],
      [NoReply EXCEPT !.exc = "ConnectionError"],
      [NoReply EXCEPT !.status_code = 500],
      NoReply }

GoogleReplies ==
    HttpFailures
    \cup { [NoReply EXCEPT !.json = "object", !.status = "ZERO_RESULTS"],
           [NoReply EXCEPT !.json = "object", !.status = "OK"],
           [NoReply EXCEPT !.json = "object", !.status = "OK", !.items = <<[lat |-> Bad, lng |-> F(0), formatted_address |-> None]>>] }
    \cup { [NoReply EXCEPT !.json = "object", !.status = "OK", !.items = <<[lat |-> p[1], lng |-> p[2], formatted_address |-> fa]>>] :
             p \in ProviderPoints, fa \in {None} \cup {Some(a) : a \in ProviderAddresses} }

\* geolocator.geocode(...): raises, returns None, or returns a Location
NominatimReplies ==
    { [exc |-> e, location |-> None] : e \in {"GeocoderTimedOut", "GeocoderServiceError", "ValueError", ""} }
    \cup { [exc |-> "", location |-> Some([latitude |-> p[1], longitude |-> p[2], address |-> a])] :
             p \in ProviderPoints, a \in ProviderAddresses }

PhotonReplies ==
    HttpFailures
    \cup { [NoReply EXCEPT !.json = "object"],
           [NoReply EXCEPT !.json = "object", !.items = <<[coordinates |-> <<F(0)>>, name |-> None, city |-> None, country |-> None]>>],
           [NoReply EXCEPT !.json = "object", !.items = <<[coordinates |-> <<Bad, F(0)>>, name |-> None, city |-> None, country |-> None]>>] }
    \cup { [NoReply EXCEPT !.json = "object", !.items = <<[coordinates |-> <<p[2], p[1]>>, name |-> n, city |-> c, country |-> k]>>] :
             p \in ProviderPoints,
             n \in {None, Some(S_elm)},
             c \in {None, Some(S_new_york)},
             k \in {None, Some(S_US)} }

---------------------------------------------------------------------------
(* tools/geolocation_tool.py: the three providers *)

\* the try block of _geocode_with_google (lines 53-90): what it returns or raises
GoogleTry(addr, key, reply) ==
    IF reply.exc # "" THEN Raise
    ELSE IF reply.status_code # 200 THEN Ret(None)
    ELSE IF reply.json # "object" THEN Raise
    ELSE IF reply.status # "OK" \/ reply.items = <<>> THEN Ret(None)
    ELSE LET result == reply.items[1]
         IN  IF FloatRaises(result.lat) \/ FloatRaises(result.lng) THEN Raise
             ELSE Ret(Some(GeoDict(result.lat, result.lng, "google_maps",
                                   IF result.formatted_address = None THEN addr
                                   ELSE result.formatted_address[1])))

\* a variant whose except clauses are missing
_geocode_with_google_no_except(addr, key, reply) ==
    IF key = "" THEN Ret(None) ELSE GoogleTry(addr, key, reply)

\* no key: None without a request; both except clauses return None
_geocode_with_google(addr, key, reply) ==
    IF key = "" THEN Ret(None)
    ELSE LET r == GoogleTry(addr, key, reply)
         IN  IF r.raised THEN Ret(None) ELSE r

\* a variant that tries the full country name before the abbreviation
address_variants_long_first(addr) == <<addr, addr \o S_United_States, addr \o S_USA>>

address_variants(addr) == <<addr, addr \o S_USA, addr \o S_United_States>>

\* one iteration of the loop over address_variants: the result, or None to continue
NominatimTry(addr, reply) ==
    IF reply.exc # "" THEN Raise
    ELSE IF reply.location = None THEN Ret(None)
    ELSE LET location == reply.location[1]
         IN  IF AbsGreater(location.latitude, 90) \/ AbsGreater(location.longitude, 180)
             THEN Ret(None)
             ELSE Ret(Some(GeoDict(location.latitude, location.longitude, "nominatim", location.address)))

\* both except clauses of the loop body `continue`
NominatimAttempt(addr, reply) ==
    LET r == NominatimTry(addr, reply)
    IN  IF r.raised THEN Ret(None) ELSE r

\* the try block of _geocode_with_photon (lines 163-212)
PhotonTry(addr, reply) ==
    IF reply.exc # "" THEN Raise
    ELSE IF reply.status_code # 200 THEN Ret(None)
    ELSE IF reply.json # "object" THEN Raise
    ELSE IF reply.items = <<>> THEN Ret(None)
    ELSE LET feature == reply.items[1]
             coordinates == feature.coordinates
         IN  IF Len(coordinates) < 2 THEN Ret(None)
             ELSE IF FloatRaises(coordinates[1]) \/ FloatRaises(coordinates[2]) THEN Raise
             ELSE IF AbsGreater(coordinates[2], 90) \/ AbsGreater(coordinates[1], 180) THEN Ret(None)
             ELSE LET name == IF feature.name = None THEN addr ELSE feature.name[1]
                      with_city == IF feature.city # None THEN name \o S_comma \o feature.city[1] ELSE name
                      formatted_addr == IF feature.country # None THEN with_city \o S_comma \o feature.country[1] ELSE with_city
                  IN  Ret(Some(GeoDict(coordinates[2], coordinates[1], "photon", formatted_addr)))

\* a variant whose handler lets the exception out
_geocode_with_photon_no_except(addr, reply) == PhotonTry(addr, reply)

\* `except Exception` returns None
_geocode_with_photon(addr, reply) ==
    LET r == PhotonTry(addr, reply)
    IN  IF r.raised THEN Ret(None) ELSE r

---------------------------------------------------------------------------
(* tools/fallback/simulated_geo.py *)

\* values random.uniform can draw for each neighborhood: both ends and one inside
SimLatitudes(neighborhood) ==
    CASE neighborhood = "urban" -> {400000, 406800, 410000}
      [] neighborhood = "suburban" -> {380000, 420000}
      [] OTHER -> {350000, 450000}

SimLongitudes(neighborhood) ==
    CASE neighborhood = "urban" -> {-740000, -739400, -730000}
      [] neighborhood = "suburban" -> {-750000, -700000}
      [] OTHER -> {-850000, -700000}

\* a variant whose dict carries no coordinates
simulate_geo_no_coordinates(neighborhood, lat, lon) ==
    [latitude |-> PyNone,
     longitude |-> PyNone,
     neighborhood_type |-> neighborhood,
     population_density |-> (CASE neighborhood = "urban" -> 8000 [] neighborhood = "suburban" -> 3000 [] OTHER -> 500),
     nearby_risks |-> (CASE neighborhood = "urban" -> <<S_nightclub, S_warehouse, S_school>> [] neighborhood = "suburban" -> <<S_school>> [] OTHER -> <<>>),
     source |-> "simulated",
     formatted_address |-> S_Simulated \o StrOf(neighborhood) \o S_location]

simulate_geo(neighborhood, lat, lon) ==
    [latitude |-> F(lat),
     longitude |-> F(lon),
     neighborhood_type |-> neighborhood,
     population_density |-> (CASE neighborhood = "urban" -> 8000 [] neighborhood = "suburban" -> 3000 [] OTHER -> 500),
     nearby_risks |-> (CASE neighborhood = "urban" -> <<S_nightclub, S_warehouse, S_school>> [] neighborhood = "suburban" -> <<S_school>> [] OTHER -> <<>>),
     source |-> "simulated",
     formatted_address |-> S_Simulated \o StrOf(neighborhood) \o S_location]

\* every dict simulate_geo() can return
SimulatedGeos ==
    { simulate_geo(n, la, lo) : n \in {"urban"}, la \in SimLatitudes("urban"), lo \in SimLongitudes("urban") }
    \cup { simulate_geo(n, la, lo) : n \in {"suburban"}, la \in SimLatitudes("suburban"), lo \in SimLongitudes("suburban") }
    \cup { simulate_geo(n, la, lo) : n \in {"rural"}, la \in SimLatitudes("rural"), lo \in SimLongitudes("rural") }

---------------------------------------------------------------------------
(* tools/geolocation_tool.py: get_geolocation_info, one action per step *)

Addresses == {S_empty, S_blank, S_elm, S_new_york, S_Chicago, S_philadelphia}

ApiKeys == {"", "k"}

\* a variant that forgets whitespace-only input
IsEmptyAddress_no_strip(addr) == addr = <<>>

\* `not address or not address.strip()`
IsEmptyAddress(addr) == addr = <<>> \/ Strip(addr) = <<>>

\* lines 225-228: the simulated dict, retagged, with the caller's address
EmptyAddressResult(sim, addr) ==
    [sim EXCEPT !.source = "simulated_empty_address", !.formatted_address = addr]

\* a variant that keeps the placeholder text of simulate_geo
FallbackResult_placeholder(sim, addr) == [sim EXCEPT !.source = "simulated_fallback"]

\* lines 249-252: the simulated dict, retagged, with the caller's address
FallbackResult(sim, addr) ==
    [sim EXCEPT !.source = "simulated_fallback", !.formatted_address = addr]

\* a variant that goes from Google straight to Photon
AfterProvider_skips(provider) ==
    CASE provider = "google" -> "geo:photon"
      [] provider = "nominatim" -> "geo:photon"
      [] OTHER -> "geo:fallback"

\* the step get_geolocation_info takes after a provider returned None
AfterProvider(provider) ==
    CASE provider = "google" -> "geo:nominatim"
      [] provider = "nominatim" -> "geo:photon"
      [] OTHER -> "geo:fallback"

Call(provider, query, ok) == [provider |-> provider, q |-> query, ok |-> ok]

\* the outcome of one provider step: propagate, return, or go on
GeoStep(r, next_pc) ==
    IF r.raised
    THEN pc' = "geo:raised" /\ geo_result' = None
    ELSE IF r.val # None
    THEN pc' = "geo:return" /\ geo_result' = r.val
    ELSE pc' = next_pc /\ geo_result' = None

GeoFrame == UNCHANGED <<api_key, address, latitude, longitude, city, crime_result, strategy, crime_source, geo_source, dim, agg, payload, prop_data, recommendations, response, replies, random_state, inflight>>

GeoEntry ==
    /\ pc = "geo:entry"
    /\ IF IsEmptyAddress(address)
       THEN \E sim \in SimulatedGeos :
               /\ geo_result' = Some(EmptyAddressResult(sim, address))
               /\ pc' = "geo:return"
       ELSE /\ geo_result' = None
            /\ pc' = "geo:google"
    /\ UNCHANGED <<variant, calls>>
    /\ GeoFrame

GeoGoogle ==
    /\ pc = "geo:google"
    /\ \E reply \in GoogleReplies :
          LET r == _geocode_with_google(address, api_key, reply)
          IN  /\ calls' = IF api_key = "" THEN calls
                          ELSE Append(calls, Call("google", address, r.val # None))
              /\ GeoStep(r, AfterProvider("google"))
    /\ variant' = 1
    /\ GeoFrame

GeoNominatim ==
    /\ pc = "geo:nominatim"
    /\ \E reply \in NominatimReplies :
          LET q == address_variants(address)[variant]
              r == NominatimAttempt(address, reply)
              last == variant = Len(address_variants(address))
          IN  /\ calls' = Append(calls, Call("nominatim", q, r.val # None))
              /\ GeoStep(r, IF last THEN AfterProvider("nominatim") ELSE "geo:nominatim")
              /\ variant' = IF r.val = None /\ ~r.raised /\ ~last THEN variant + 1 ELSE variant
    /\ GeoFrame

GeoPhoton ==
    /\ pc = "geo:photon"
    /\ \E reply \in PhotonReplies :
          LET r == _geocode_with_photon(address, reply)
          IN  /\ calls' = Append(calls, Call("photon", address, r.val # None))
              /\ GeoStep(r, AfterProvider("photon"))
    /\ UNCHANGED variant
    /\ GeoFrame

GeoFallback ==
    /\ pc = "geo:fallback"
    /\ \E sim \in SimulatedGeos :
          geo_result' = Some(FallbackResult(sim, address))
    /\ pc' = "geo:return"
    /\ UNCHANGED <<variant, calls>>
    /\ GeoFrame

NoDim == [crime_risk |-> 0, property_exposure_risk |-> 0, accessibility_risk |-> 0, neighborhood_risk |-> 0, operational_risk |-> 0]

NoPayload == [address |-> <<>>, property_type |-> <<>>, fenced |-> FALSE, gated |-> FALSE, operating_hours |-> None, notes |-> None]

\* one call is served at a time; its random draws are any the generator can give
NoConcurrency ==
    /\ random_state = [stream |-> <<>>, next |-> 1]
    /\ inflight = <<>>

\* no request is being served
NoRequest ==
    /\ payload = NoPayload
    /\ prop_data = None
    /\ recommendations = None
    /\ response = None

InitGeo ==
    /\ pc = "geo:entry"
    /\ api_key \in ApiKeys
    /\ address \in Addresses
    /\ variant = 1
    /\ calls = <<>>
    /\ geo_result = None
    /\ latitude = PyNone
    /\ longitude = PyNone
    /\ city = None
    /\ crime_result = None
    /\ strategy = <<>>
    /\ crime_source = None
    /\ geo_source = None
    /\ dim = NoDim
    /\ agg = None
    /\ NoRequest
    /\ replies = <<>>
    /\ NoConcurrency

NextGeo == GeoEntry \/ GeoGoogle \/ GeoNominatim \/ GeoPhoton \/ GeoFallback

SpecGeo == InitGeo /\ [][NextGeo]_vars

---------------------------------------------------------------------------
(* Properties of get_geolocation_info, checked under SpecGeo *)

GeoSources == {"google_maps", "nominatim", "photon", "simulated_fallback", "simulated_empty_address"}

IsGeoResult(g) ==
    /\ DOMAIN g = {"latitude", "longitude", "neighborhood_type", "population_density", "nearby_risks", "source", "formatted_address"}
    /\ g.latitude.kind = "num"
    /\ g.longitude.kind = "num"
    /\ g.neighborhood_type \in {"urban", "suburban", "rural"}
    /\ g.population_density \in {8000, 3000, 500}
    /\ g.source \in GeoSources

GeoReturned == pc = "geo:return"

Rank(provider) ==
    CASE provider = "google" -> 1
      [] provider = "nominatim" -> 2
      [] OTHER -> 3

SourceOf(provider) ==
    CASE provider = "google" -> "google_maps"
      [] provider = "nominatim" -> "nominatim"
      [] OTHER -> "photon"

Called(provider) == \E i \in 1..Len(calls) : calls[i].provider = provider

NoProviderSucceeded == \A i \in 1..Len(calls) : ~calls[i].ok

\* C1: get_geolocation_info never raises and, for every address and every
\* outcome of the three providers, runs on until it returns a GeoResult.
C1_GeoNeverRaises ==
    /\ pc # "geo:raised"
    /\ GeoReturned => geo_result # None /\ IsGeoResult(geo_result[1])
    /\ ~GeoReturned => ENABLED NextGeo

\* C1 witness: a call returned a GeoResult although Google, the three
\* Nominatim variants and Photon were all called and all failed.
C1_Witness ==
    /\ GeoReturned
    /\ api_key # ""
    /\ Len(calls) = 5
    /\ NoProviderSucceeded
    /\ IsGeoResult(geo_result[1])

\* C2: for a non-empty address the providers are tried in the order Google
\* (only with a key), Nominatim, Photon, simulation; the first success is
\* returned and no provider is called after a success.
C2_ProviderOrder ==
    /\ \A i \in 1..(Len(calls) - 1) :
          /\ Rank(calls[i].provider) <= Rank(calls[i + 1].provider)
          /\ ~calls[i].ok
    /\ Cardinality({i \in 1..Len(calls) : calls[i].provider = "google"}) <= 1
    /\ Cardinality({i \in 1..Len(calls) : calls[i].provider = "photon"}) <= 1
    /\ api_key = "" => ~Called("google")
    /\ (api_key # "" /\ pc \notin {"geo:entry", "geo:google"} /\ ~IsEmptyAddress(address))
          => calls[1].provider = "google"
    /\ (pc \in {"geo:photon", "geo:fallback"} \/ Called("photon")) => Called("nominatim")
    /\ pc = "geo:fallback" => Called("photon")
    /\ (GeoReturned /\ ~IsEmptyAddress(address)) =>
          IF NoProviderSucceeded
          THEN /\ geo_result[1].source = "simulated_fallback"
               /\ Called("nominatim") /\ Called("photon")
          ELSE /\ calls[Len(calls)].ok
               /\ geo_result[1].source = SourceOf(calls[Len(calls)].provider)

\* C2 witness: with a key configured, Google and Nominatim found nothing and
\* Photon's answer was returned.
C2_Witness ==
    /\ GeoReturned
    /\ api_key # ""
    /\ Len(calls) = 5
    /\ calls[5].provider = "photon" /\ calls[5].ok
    /\ geo_result[1].source = "photon"

InBounds(x, bound) == x.kind = "num" /\ Abs(x.v) <= bound * Scale

\* C7: every GeoResult whose provenance is not simulated_empty_address has
\* latitude in [-90,90] and longitude in [-180,180].
C7_GeoCoordinatesInBounds ==
    (GeoReturned /\ geo_result[1].source # "simulated_empty_address")
        => InBounds(geo_result[1].latitude, 90) /\ InBounds(geo_result[1].longitude, 180)

\* C9: when every provider yields nothing for a non-empty address, the result
\* is tagged simulated_fallback and its formatted_address is the input address,
\* not the 'Simulated ... location' placeholder.
C9_FallbackKeepsAddress ==
    (GeoReturned /\ ~IsEmptyAddress(address) /\ NoProviderSucceeded) =>
        /\ geo_result[1].source = "simulated_fallback"
        /\ geo_result[1].formatted_address = address
        /\ ~Contains(S_Simulated, geo_result[1].formatted_address)

\* C9 witness: without a key, three Nominatim variants and Photon failed.
C9_Witness ==
    /\ GeoReturned
    /\ address = S_elm
    /\ api_key = ""
    /\ Len(calls) = 4
    /\ NoProviderSucceeded
    /\ geo_result[1].formatted_address = S_elm

\* C10: an empty or whitespace-only address returns at once, tagged
\* simulated_empty_address, with formatted_address the original string and no
\* provider called.
C10_EmptyAddress ==
    (Strip(address) = <<>> /\ pc # "geo:entry") =>
        /\ GeoReturned
        /\ calls = <<>>
        /\ geo_result[1].source = "simulated_empty_address"
        /\ geo_result[1].formatted_address = address

\* C10 witness: the whitespace-only address has returned.
C10_Witness ==
    /\ GeoReturned
    /\ address = S_blank
    /\ geo_result[1].source = "simulated_empty_address"
    /\ geo_result[1].formatted_address = S_blank

---------------------------------------------------------------------------
(* tools/fallback/simulated_crime.py *)

\* values random.randint can draw: both ends and one inside
SimulatedCrimes ==
    { [violent_crime_index |-> v, property_crime_index |-> p, recent_incidents |-> r, source |-> "simulated"] :
        v \in {20, 50, 80}, p \in {15, 70}, r \in {0, 10} }

---------------------------------------------------------------------------
(* tools/crime_data_tool.py: city detection and the city endpoints *)

S_nyc == <<"n", "y", "c">>

S_la == <<"l", "a">>

S_sf == <<"s", "f">>

S_boston == <<"b", "o", "s", "t", "o", "n">>

city_priority == <<S_san_francisco, S_los_angeles, S_new_york, S_philadelphia, S_chicago>>

_detect_city_from_address(addr) ==
    IF addr = <<>> THEN None
    ELSE LET address_lower == Lower(addr)
             hits == {i \in 1..Len(city_priority) : Contains(city_priority[i], address_lower)}
         IN  IF hits = {} THEN None
             ELSE Some(city_priority[CHOOSE i \in hits : \A j \in hits : i <= j])

\* the branch _query_city_crime_api takes: the endpoint it queries, or "" for none
Endpoint(city_name) ==
    LET city_lower == Lower(city_name)
    IN  IF Contains(S_chicago, city_lower) THEN "chicago"
        ELSE IF Contains(S_new_york, city_lower) \/ Contains(S_nyc, city_lower) THEN "new york"
        ELSE IF Contains(S_los_angeles, city_lower) \/ Contains(S_la, city_lower) THEN "los angeles"
        ELSE IF Contains(S_san_francisco, city_lower) \/ Contains(S_sf, city_lower) THEN "san francisco"
        ELSE ""

\* a variant of the index formula without the upper clamp
CityIndex_unclamped(floor, mult, count, total) ==
    Max(floor, (count * 100 * mult) \div Max(total, 1))

\* the <<mult, count, total>> with total <= 1000 (the largest $limit) for which
\* the float product count / total * 100 * mult falls just below the integer
\* 100 * mult * count / total, so that int() gives one less; products above
\* 100 are left out, the clamp hiding the difference
FloatProductBelow ==
    {
      <<11, 3, 44>>, <<11, 3, 55>>, <<11, 6, 88>>, <<11, 3, 110>>, <<11, 6, 110>>, <<11, 9, 132>>,
      <<11, 9, 165>>, <<11, 12, 176>>, <<11, 3, 220>>, <<11, 6, 220>>, <<11, 12, 220>>, <<11, 15, 220>>,
      <<15, 9, 250>>, <<15, 11, 250>>, <<11, 18, 264>>, <<11, 15, 275>>, <<15, 17, 300>>, <<11, 21, 308>>,
      <<11, 9, 330>>, <<11, 18, 330>>, <<11, 24, 352>>, <<15, 13, 375>>, <<11, 21, 385>>, <<11, 27, 396>>,
      <<11, 6, 440>>, <<11, 12, 440>>, <<11, 24, 440>>, <<11, 30, 440>>, <<11, 33, 484>>, <<11, 27, 495>>,
      <<15, 9, 500>>, <<15, 11, 500>>, <<15, 18, 500>>, <<15, 22, 500>>, <<11, 36, 528>>, <<11, 15, 550>>,
      <<11, 30, 550>>, <<11, 39, 572>>, <<15, 34, 600>>, <<11, 33, 605>>, <<11, 42, 616>>, <<11, 9, 660>>,
      <<11, 18, 660>>, <<11, 36, 660>>, <<11, 45, 660>>, <<11, 48, 704>>, <<11, 39, 715>>, <<11, 51, 748>>,
      <<15, 13, 750>>, <<15, 26, 750>>, <<15, 27, 750>>, <<15, 31, 750>>, <<15, 33, 750>>, <<15, 49, 750>>,
      <<11, 21, 770>>, <<11, 42, 770>>, <<11, 54, 792>>, <<11, 45, 825>>, <<11, 57, 836>>, <<11, 12, 880>>,
      <<11, 24, 880>>, <<11, 48, 880>>, <<11, 60, 880>>, <<15, 51, 900>>, <<11, 63, 924>>, <<11, 51, 935>>,
      <<11, 66, 968>>, <<11, 27, 990>>, <<11, 54, 990>>, <<15, 18, 1000>>, <<15, 22, 1000>>, <<15, 36, 1000>>,
      <<15, 44, 1000>> }

\* min(100, max(floor, int(count / max(total, 1) * 100 * mult))), in floats
CityIndex(floor, mult, count, total) ==
    LET exact == (count * 100 * mult) \div Max(total, 1)
        scaled == IF <<mult, count, total>> \in FloatProductBelow THEN exact - 1 ELSE exact
    IN  Min(100, Max(floor, scaled))

\* a city endpoint's answer: the request's fate and, for a JSON list, the number
\* of records, how many of them the city's keyword lists class as violent and as
\* property crime, and how many are dated within the last 7 days
NoCityReply == [exc |-> "", status_code |-> 200, json |-> "invalid", total |-> 0, violent |-> 0, property |-> 0, recent |-> 0]

CityPayloads ==
    { [NoCityReply EXCEPT !.json = "list"],
      [NoCityReply EXCEPT !.json = "list", !.total = 1, !.violent = 1, !.recent = 1],
      [NoCityReply EXCEPT !.json = "list", !.total = 40, !.violent = 1, !.property = 2, !.recent = 3],
      [NoCityReply EXCEPT !.json = "list", !.total = 500, !.violent = 500, !.recent = 500],
      [NoCityReply EXCEPT !.json = "list", !.total = 500, !.violent = 20, !.property = 480, !.recent = 29],
      [NoCityReply EXCEPT !.json = "list", !.total = 500, !.violent = 9, !.property = 22, !.recent = 2],
      [NoCityReply EXCEPT !.json = "list", !.total = 1000, !.violent = 40, !.property = 50, !.recent = 31] }

CityReplies ==
    { [NoCityReply EXCEPT !.exc = "Timeout"],
      [NoCityReply EXCEPT !.exc = "ConnectionError"],
      [NoCityReply EXCEPT !.status_code = 500],
      NoCityReply }
    \cup CityPayloads

\* the try block of _query_chicago_crime_api once a response is in hand
ChicagoParse(reply) ==
    IF reply.status_code # 200 THEN Ret(None)
    ELSE IF reply.json # "list" THEN Raise
    ELSE IF reply.total = 0 THEN Ret(None)
    ELSE Ret(Some([violent_crime_index |-> CityIndex(20, 15, reply.violent, reply.total),
                   property_crime_index |-> CityIndex(15, 15, reply.property, reply.total),
                   recent_incidents |-> Min(30, reply.recent),
                   source |-> "chicago_api_realtime",
                   total_incidents_analyzed |-> reply.total,
                   data_period_days |-> 30]))

\* lines 56-125: the dated request, a second request without the date filter
\* when the first is answered with a non-200 status; the except clauses give None
_query_chicago_crime_api(first, second) ==
    LET r == IF first.exc # "" THEN Raise
             ELSE IF first.status_code = 200 THEN ChicagoParse(first)
             ELSE IF second.exc # "" THEN Raise
             ELSE ChicagoParse(second)
    IN  IF r.raised THEN Ret(None) ELSE r

\* the number of requests _query_chicago_crime_api sends
ChicagoRequests(first) == IF first.exc = "" /\ first.status_code # 200 THEN 2 ELSE 1

\* a variant whose except clauses are missing
SimpleCityQuery_no_except(reply, floor_v, floor_p, mult, source) ==
    IF reply.exc # "" THEN Raise
    ELSE IF reply.status_code # 200 THEN Ret(None)
    ELSE IF reply.json # "list" THEN Raise
    ELSE IF reply.total = 0 THEN Ret(None)
    ELSE Ret(Some([violent_crime_index |-> CityIndex(floor_v, mult, reply.violent, reply.total),
                   property_crime_index |-> CityIndex(floor_p, mult, reply.property, reply.total),
                   recent_incidents |-> Min(20, reply.total \div 25),
                   source |-> source]))

\* _query_nyc_crime_api, _query_la_crime_api, _query_sf_crime_api differ in the
\* floors, the multiplier and the source tag only
SimpleCityQuery(reply, floor_v, floor_p, mult, source) ==
    LET r == IF reply.exc # "" THEN Raise
             ELSE IF reply.status_code # 200 THEN Ret(None)
             ELSE IF reply.json # "list" THEN Raise
             ELSE IF reply.total = 0 THEN Ret(None)
             ELSE Ret(Some([violent_crime_index |-> CityIndex(floor_v, mult, reply.violent, reply.total),
                            property_crime_index |-> CityIndex(floor_p, mult, reply.property, reply.total),
                            recent_incidents |-> Min(20, reply.total \div 25),
                            source |-> source]))
    IN  IF r.raised THEN Ret(None) ELSE r

_query_nyc_crime_api(reply) == SimpleCityQuery(reply, 25, 20, 15, "nypd_api")

_query_la_crime_api(reply) == SimpleCityQuery(reply, 22, 18, 13, "la_api")

_query_sf_crime_api(reply) == SimpleCityQuery(reply, 20, 15, 11, "sf_api")

_query_city_crime_api(city_name, first, second) ==
    LET e == Endpoint(city_name)
    IN  CASE e = "chicago" -> _query_chicago_crime_api(first, second)
          [] e = "new york" -> _query_nyc_crime_api(first)
          [] e = "los angeles" -> _query_la_crime_api(first)
          [] e = "san francisco" -> _query_sf_crime_api(first)
          [] OTHER -> Ret(None)

\* a variant in which every endpoint is asked again after a failed request
CityCalls_retry_each(city_name, first, second) ==
    LET e == Endpoint(city_name)
        ok == _query_city_crime_api(city_name, first, second).val # None
    IN  IF e = "" THEN <<>>
        ELSE IF ~ok THEN <<Call(e, <<>>, FALSE), Call(e, <<>>, FALSE)>>
        ELSE <<Call(e, <<>>, ok)>>

\* the requests _query_city_crime_api sends, as call-log entries
CityCalls(city_name, first, second) ==
    LET e == Endpoint(city_name)
        ok == _query_city_crime_api(city_name, first, second).val # None
    IN  IF e = "" THEN <<>>
        ELSE IF e = "chicago" /\ ChicagoRequests(first) = 2
        THEN <<Call(e, <<>>, FALSE), Call(e, <<>>, ok)>>
        ELSE <<Call(e, <<>>, ok)>>

---------------------------------------------------------------------------
(* tools/crime_data_tool.py: coordinate-based estimation *)

\* lo <= x <= hi for a coordinate x in 1/Scale degree
Between(lo, x, hi) == lo <= x /\ x <= hi

\* int((x % 1) * k) for a coordinate x in 1/Scale degree
FracTimes(x, k) == ((x % Scale) * k) \div Scale

Estimate(violent, property, recent, source) ==
    [violent_crime_index |-> violent, property_crime_index |-> property, recent_incidents |-> recent, source |-> source]

\* a variant that tests the Manhattan box before the Brooklyn box
_get_crime_from_coordinates_manhattan_first(lat, lon) ==
    IF lat.kind # "num" \/ lon.kind # "num" THEN Raise
    ELSE LET la == lat.v
             lo == lon.v
             lat_variation15 == Abs(la - 406782) * 15
         IN  IF Between(406500, la, 407000) /\ Between(-739500, lo, -739000)
             THEN Ret(Estimate(85, 75, 18, "coordinate_estimation_brooklyn_high_crime"))
             ELSE IF Between(407000, la, 408000) /\ Between(-740500, lo, -739000)
             THEN Ret(Estimate(Min(100, 50 + FracTimes(la, 15)),
                               Min(100, 60 + FracTimes(lo, 10)),
                               Min(20, 10 + FracTimes(la, 3)),
                               "coordinate_estimation_manhattan"))
             ELSE IF Between(406000, la, 407500) /\ Between(-740500, lo, -738500)
             THEN Ret(Estimate(Min(100, (65 * Scale + lat_variation15) \div Scale),
                               Min(100, (55 * Scale * 10 + lat_variation15 * 8) \div (Scale * 10)),
                               Min(25, (12 * Scale * 3 + lat_variation15) \div (Scale * 3)),
                               "coordinate_estimation_brooklyn"))
             ELSE IF Between(405000, la, 409000) /\ Between(-743000, lo, -737000)
             THEN Ret(Estimate(Min(100, 55 + FracTimes(la, 20)),
                               Min(100, 50 + FracTimes(lo, 15)),
                               Min(20, 10 + FracTimes(la, 4)),
                               "coordinate_estimation_nyc"))
             ELSE Ret(Estimate(Min(100, 45 + FracTimes(la, 20)),
                               Min(100, 40 + FracTimes(lo, 15)),
                               Min(20, 8 + FracTimes(la, 5)),
                               "coordinate_estimation_urban"))

\* non-finite coordinates match no box and int() of their fractional part raises
_get_crime_from_coordinates(lat, lon) ==
    IF lat.kind # "num" \/ lon.kind # "num" THEN Raise
    ELSE LET la == lat.v
             lo == lon.v
             lat_variation15 == Abs(la - 406782) * 15
         IN  IF Between(406500, la, 407000) /\ Between(-739500, lo, -739000)
             THEN Ret(Estimate(85, 75, 18, "coordinate_estimation_brooklyn_high_crime"))
             ELSE IF Between(406000, la, 407500) /\ Between(-740500, lo, -738500)
             THEN Ret(Estimate(Min(100, (65 * Scale + lat_variation15) \div Scale),
                               Min(100, (55 * Scale * 10 + lat_variation15 * 8) \div (Scale * 10)),
                               Min(25, (12 * Scale * 3 + lat_variation15) \div (Scale * 3)),
                               "coordinate_estimation_brooklyn"))
             ELSE IF Between(407000, la, 408000) /\ Between(-740500, lo, -739000)
             THEN Ret(Estimate(Min(100, 50 + FracTimes(la, 15)),
                               Min(100, 60 + FracTimes(lo, 10)),
                               Min(20, 10 + FracTimes(la, 3)),
                               "coordinate_estimation_manhattan"))
             ELSE IF Between(405000, la, 409000) /\ Between(-743000, lo, -737000)
             THEN Ret(Estimate(Min(100, 55 + FracTimes(la, 20)),
                               Min(100, 50 + FracTimes(lo, 15)),
                               Min(20, 10 + FracTimes(la, 4)),
                               "coordinate_estimation_nyc"))
             ELSE Ret(Estimate(Min(100, 45 + FracTimes(la, 20)),
                               Min(100, 40 + FracTimes(lo, 15)),
                               Min(20, 8 + FracTimes(la, 5)),
                               "coordinate_estimation_urban"))

---------------------------------------------------------------------------
(* tools/crime_data_tool.py: get_crime_data, one action per strategy *)

\* truth value of an Optional[str]
TruthyStr(x) == x # None /\ x[1] # <<>>

\* a variant that tests the coordinates for truth, as lines 441 and 450 do
HasCoordinates_truthy(lat, lon) == Truthy(lat) /\ Truthy(lon)

\* `latitude is not None and longitude is not None`
HasCoordinates(lat, lon) == lat.kind # "none" /\ lon.kind # "none"

\* lines 439-455: the city whose endpoint is tried first, if any: the hinted
\* city, else the city detected in the address, and only with truthy coordinates
CityToQuery(addr, lat, lon, hint) ==
    IF TruthyStr(hint)
    THEN IF Truthy(lat) /\ Truthy(lon) THEN hint ELSE None
    ELSE IF addr # <<>>
    THEN LET detected_city == _detect_city_from_address(addr)
         IN  IF detected_city # None /\ Truthy(lat) /\ Truthy(lon) THEN detected_city ELSE None
    ELSE None

\* a variant without the outer handler
OuterExcept_missing(r, sim) == r

\* lines 494-499: an exception that reaches the outer handler becomes a
\* simulated result tagged simulated_error
OuterExcept(r, sim) ==
    IF r.raised THEN Ret(Some([sim EXCEPT !.source = "simulated_error"])) ELSE r

\* geolocator.geocode(address, timeout=5): raises, returns None or a Location
OnDemandReplies ==
    { [exc |-> e, location |-> None] : e \in {"GeocoderTimedOut", "GeocoderServiceError", ""} }
    \cup { [exc |-> "", location |-> Some([latitude |-> p[1], longitude |-> p[2]])] : p \in ProviderPoints }

\* a variant that leaves the estimate's own tag
OnDemandEstimate_untagged(location) ==
    _get_crime_from_coordinates(location.latitude, location.longitude)

\* lines 482-484: the estimate from the geocoded point, retagged
OnDemandEstimate(location) ==
    LET r == _get_crime_from_coordinates(location.latitude, location.longitude)
    IN  IF r.raised THEN r ELSE Ret([r.val EXCEPT !.source = "coordinate_based"])

CrimeFrame == UNCHANGED <<api_key, address, variant, geo_result, latitude, longitude, city, crime_source, geo_source, dim, agg, payload, prop_data, recommendations, response, replies, random_state, inflight>>

\* how a strategy ends: with the function's return value, or at the next strategy
CrimeStep(r, next_pc) ==
    IF r.raised
    THEN pc' = "crime:raised" /\ crime_result' = None
    ELSE IF r.val # None
    THEN pc' = "crime:return" /\ crime_result' = r.val
    ELSE pc' = next_pc /\ crime_result' = None

\* lines 439-455: the city-specific query
CrimeCity ==
    /\ pc = "crime:entry"
    /\ LET c == CityToQuery(address, latitude, longitude, city)
       IN  IF c = None
           THEN /\ pc' = "crime:coords"
                /\ UNCHANGED <<calls, strategy, crime_result>>
           ELSE \E first \in CityReplies, second \in CityReplies :
                   LET r == _query_city_crime_api(c[1], first, second)
                   IN  /\ calls' = calls \o CityCalls(c[1], first, second)
                       /\ strategy' = Append(strategy, "city")
                       /\ CrimeStep(r, "crime:coords")
    /\ CrimeFrame

\* lines 458-464: estimation from the supplied coordinates
CrimeCoords ==
    /\ pc = "crime:coords"
    /\ IF HasCoordinates(latitude, longitude)
       THEN \E sim \in SimulatedCrimes :
               LET e == _get_crime_from_coordinates(latitude, longitude)
                   r == OuterExcept(IF e.raised THEN e ELSE Ret(Some(e.val)), sim)
               IN  /\ strategy' = Append(strategy, IF e.raised THEN "error" ELSE "estimate")
                   /\ CrimeStep(r, "crime:geocode")
       ELSE /\ pc' = "crime:geocode"
            /\ UNCHANGED <<strategy, crime_result>>
    /\ UNCHANGED calls
    /\ CrimeFrame

\* lines 467-486: on-demand geocoding, then the city endpoint of a city
\* detected in the address, then estimation; any exception falls through
CrimeGeocode ==
    /\ pc = "crime:geocode"
    /\ \E reply \in OnDemandReplies, first \in CityReplies, second \in CityReplies :
          LET found == reply.exc = "" /\ reply.location # None
              detected_city == IF found /\ ~TruthyStr(city) THEN _detect_city_from_address(address) ELSE None
              api == IF detected_city = None THEN Ret(None)
                     ELSE _query_city_crime_api(detected_city[1], first, second)
              e == IF found THEN OnDemandEstimate(reply.location[1]) ELSE Raise
              r == IF ~found THEN Ret(None)
                   ELSE IF api.val # None THEN api
                   ELSE IF e.raised THEN Ret(None)
                   ELSE Ret(Some(e.val))
          IN  /\ calls' = Append(calls, Call("nominatim_on_demand", address, found))
                            \o (IF detected_city = None THEN <<>> ELSE CityCalls(detected_city[1], first, second))
              /\ strategy' = strategy \o <<"geocode">>
                               \o (IF detected_city = None THEN <<>> ELSE <<"city">>)
                               \o (IF found /\ api.val = None THEN <<"geocode_estimate">> ELSE <<>>)
              /\ CrimeStep(r, "crime:simulate")
    /\ CrimeFrame

\* lines 489-492: synthetic simulation
CrimeSimulate ==
    /\ pc = "crime:simulate"
    /\ \E sim \in SimulatedCrimes :
          crime_result' = Some([sim EXCEPT !.source = "simulated"])
    /\ strategy' = Append(strategy, "simulate")
    /\ pc' = "crime:return"
    /\ UNCHANGED calls
    /\ CrimeFrame

\* coordinates a caller may pass: absent, one absent, zero, finite, non-finite
CallerPoints ==
    { <<PyNone, PyNone>>,
      <<F(406782), PyNone>>,
      <<F(0), F(0)>>,
      <<NaN, F(-739442)>>,
      <<F(407200), F(-740000)>>,     \* Brooklyn
      <<F(408500), F(-738000)>> }    \* New York metro
    \cup ProviderPoints

CityHints == {None, Some(S_empty), Some(S_chicago), Some(S_new_york), Some(S_philadelphia), Some(S_boston)}

InitCrime ==
    /\ pc = "crime:entry"
    /\ api_key = ""
    /\ address \in {S_empty, S_elm, S_new_york, S_Chicago, S_philadelphia}
    /\ variant = 1
    /\ calls = <<>>
    /\ geo_result = None
    /\ \E p \in CallerPoints : latitude = p[1] /\ longitude = p[2]
    /\ city \in CityHints
    /\ crime_result = None
    /\ strategy = <<>>
    /\ crime_source = None
    /\ geo_source = None
    /\ dim = NoDim
    /\ agg = None
    /\ NoRequest
    /\ replies = <<>>
    /\ NoConcurrency

NextCrime == CrimeCity \/ CrimeCoords \/ CrimeGeocode \/ CrimeSimulate

SpecCrime == InitCrime /\ [][NextCrime]_vars

---------------------------------------------------------------------------
(* Properties of get_crime_data, checked under SpecCrime *)

CitySources == {"chicago_api_realtime", "nypd_api", "la_api", "sf_api"}

EstimationSources == {"coordinate_estimation_brooklyn_high_crime", "coordinate_estimation_brooklyn", "coordinate_estimation_manhattan", "coordinate_estimation_nyc", "coordinate_estimation_urban"}

CrimeSources == CitySources \cup EstimationSources \cup {"coordinate_based", "simulated", "simulated_error"}

IsCrimeResult(c) ==
    /\ {"violent_crime_index", "property_crime_index", "recent_incidents", "source"} \subseteq DOMAIN c
    /\ c.violent_crime_index \in Int
    /\ c.property_crime_index \in Int
    /\ c.recent_incidents \in Int
    /\ c.source \in CrimeSources

CrimeReturned == pc = "crime:return"

\* both coordinates were passed to get_crime_data
Supplied == latitude.kind # "none" /\ longitude.kind # "none"

NonFinite == latitude.kind = "nan" \/ longitude.kind = "nan"

Entered(name) == \E i \in 1..Len(strategy) : strategy[i] = name

\* C3: get_crime_data never raises and what it returns is a CrimeResult, for
\* every combination of arguments and provider outcomes; an internal error
\* (here: estimation on a non-finite coordinate) gives a simulated result
\* tagged simulated_error.
C3_CrimeNeverRaises ==
    /\ pc \in {"crime:entry", "crime:coords", "crime:geocode", "crime:simulate", "crime:return"}
    /\ CrimeReturned => crime_result # None /\ IsCrimeResult(crime_result[1])
    /\ (CrimeReturned /\ Supplied /\ NonFinite /\ crime_result[1].source \notin CitySources) =>
          /\ crime_result[1].source = "simulated_error"
          /\ \E sim \in SimulatedCrimes : crime_result[1] = [sim EXCEPT !.source = "simulated_error"]

\* C3 witness: estimation failed on a non-finite latitude and the call returned
\* a result tagged simulated_error.
C3_Witness ==
    /\ CrimeReturned
    /\ latitude = NaN
    /\ crime_result[1].source = "simulated_error"

StrategyRank(name) ==
    CASE name = "city" -> 1
      [] name \in {"estimate", "error"} -> 2
      [] name = "geocode" -> 3
      [] name = "geocode_estimate" -> 4
      [] OTHER -> 5

\* the provenances a strategy can give
SourcesOf(name) ==
    CASE name = "city" -> CitySources
      [] name = "estimate" -> EstimationSources
      [] name = "error" -> {"simulated_error"}
      [] name = "geocode_estimate" -> {"coordinate_based"}
      [] name = "simulate" -> {"simulated"}
      [] OTHER -> {}

CityKnown == TruthyStr(city) \/ _detect_city_from_address(address) # None

OnDemandFound == \E i \in 1..Len(calls) : calls[i].provider = "nominatim_on_demand" /\ calls[i].ok

OnDemandFailed == \E i \in 1..Len(calls) : calls[i].provider = "nominatim_on_demand" /\ ~calls[i].ok

\* what C4 says beyond the place of the city query
C4_Rest ==
    /\ Entered("estimate") => Supplied
    /\ Entered("geocode") => ~Supplied
    /\ Entered("geocode_estimate") => ~Supplied /\ OnDemandFound
    /\ CrimeReturned => crime_result[1].source \in SourcesOf(strategy[Len(strategy)])
    /\ (CrimeReturned /\ crime_result[1].source = "simulated") => ~Supplied /\ OnDemandFailed

\* C4: the strategies are tried in the order city query (only with a hinted or
\* detected city and supplied coordinates), estimation (with supplied
\* coordinates), on-demand geocoding (only without supplied coordinates),
\* simulation; the first that yields a result is returned; 'simulated' only
\* when no coordinates were supplied and on-demand geocoding found nothing.
C4_StrategyOrder ==
    /\ \A i \in 1..(Len(strategy) - 1) : StrategyRank(strategy[i]) < StrategyRank(strategy[i + 1])
    /\ Entered("city") => CityKnown /\ Supplied
    /\ C4_Rest

\* C4 as amended: as C4, but a city query also follows a successful on-demand
\* geocoding when no city was hinted and a city is detected in the address.
C4_StrategyOrderAmended ==
    /\ \A i \in 1..(Len(strategy) - 1) :
          \/ StrategyRank(strategy[i]) < StrategyRank(strategy[i + 1])
          \/ /\ strategy[i] = "geocode" /\ strategy[i + 1] = "city"
             /\ OnDemandFound /\ ~TruthyStr(city)
             /\ _detect_city_from_address(address) # None
    /\ \A i \in 1..(Len(strategy) - 2) :
          (strategy[i] = "geocode" /\ strategy[i + 1] = "city") => strategy[i + 2] = "geocode_estimate"
    /\ Cardinality({i \in 1..Len(strategy) : strategy[i] = "city"}) <= 1
    /\ Entered("city") => CityKnown /\ (Supplied \/ OnDemandFound)
    /\ C4_Rest

\* C4 witness: without coordinates and without a hint, the geocoder found the
\* address "new york" and the NYPD endpoint's answer was returned.
C4_Witness ==
    /\ CrimeReturned
    /\ ~Supplied
    /\ city = None
    /\ strategy = <<"geocode", "city">>
    /\ crime_result[1].source = "nypd_api"

InRange(x, lo, hi) == lo <= x /\ x <= hi

\* C8: every result get_crime_data returns has both indices in [0,100] and
\* recent_incidents in [0,30].
C8_CrimeRanges ==
    CrimeReturned =>
        /\ InRange(crime_result[1].violent_crime_index, 0, 100)
        /\ InRange(crime_result[1].property_crime_index, 0, 100)
        /\ InRange(crime_result[1].recent_incidents, 0, 30)

\* C8 witness: a city payload whose scaled ratio exceeds 100 came back clamped.
C8_Witness ==
    /\ CrimeReturned
    /\ crime_result[1].source \in CitySources
    /\ crime_result[1].violent_crime_index = 100

---------------------------------------------------------------------------
(* core/aggregation.py: compute_overall_score *)
(* The overall score is kept in hundredths and the confidence in tenths: the  *)
(* weighted sum of five integers is a whole number of hundredths, so          *)
(* round(score, 2) leaves it unchanged.                                       *)

\* dict.get("source", "simulated")
SourceOrDefault(src) == IF src = None THEN "simulated" ELSE src[1]

Confidence(crime_src, geo_src) ==
    IF crime_src # "simulated" /\ geo_src # "simulated" THEN 10
    ELSE IF crime_src = "simulated" /\ geo_src # "simulated" THEN 7
    ELSE 5

\* a variant with the first two weights exchanged
compute_overall_score_swapped(d, crime_src, geo_src) ==
    LET score == d.crime_risk * 25 + d.property_exposure_risk * 35 + d.accessibility_risk * 15
                   + d.neighborhood_risk * 15 + d.operational_risk * 10
    IN  [overall |-> Max(0, Min(100 * 100, score)),
         confidence |-> Confidence(SourceOrDefault(crime_src), SourceOrDefault(geo_src))]

compute_overall_score(d, crime_src, geo_src) ==
    LET score == d.crime_risk * 35 + d.property_exposure_risk * 25 + d.accessibility_risk * 15
                   + d.neighborhood_risk * 15 + d.operational_risk * 10
    IN  [overall |-> Max(0, Min(100 * 100, score)),
         confidence |-> Confidence(SourceOrDefault(crime_src), SourceOrDefault(geo_src))]

DimKeys == {"crime_risk", "property_exposure_risk", "accessibility_risk", "neighborhood_risk", "operational_risk"}

DimSamples ==
    [DimKeys -> {0, 50, 100}]
    \cup { [crime_risk |-> 50, property_exposure_risk |-> 40, accessibility_risk |-> 30, neighborhood_risk |-> 20, operational_risk |-> 10] }

SourceSamples == {None, Some("simulated"), Some("simulated_error"), Some("simulated_fallback"), Some("nypd_api"), Some("nominatim")}

AggFrame == UNCHANGED <<api_key, address, variant, calls, geo_result, latitude, longitude, city, crime_result, strategy, crime_source, geo_source, dim, payload, prop_data, recommendations, response, replies, random_state, inflight>>

\* one call of compute_overall_score
Aggregate ==
    /\ pc = "agg:entry"
    /\ agg' = Some(compute_overall_score(dim, crime_source, geo_source))
    /\ pc' = "agg:return"
    /\ AggFrame

InitAgg ==
    /\ pc = "agg:entry"
    /\ api_key = ""
    /\ address = <<>>
    /\ variant = 1
    /\ calls = <<>>
    /\ geo_result = None
    /\ latitude = PyNone
    /\ longitude = PyNone
    /\ city = None
    /\ crime_result = None
    /\ strategy = <<>>
    /\ crime_source \in SourceSamples
    /\ geo_source \in SourceSamples
    /\ dim \in DimSamples
    /\ agg = None
    /\ NoRequest
    /\ replies = <<>>
    /\ NoConcurrency

NextAgg == Aggregate

SpecAgg == InitAgg /\ [][NextAgg]_vars

---------------------------------------------------------------------------
(* Properties of compute_overall_score, checked under SpecAgg *)

\* the provenance is not the tag "simulated"
NonSimulated(src) == SourceOrDefault(src) # "simulated"

\* C5: the confidence is 1.0 with both provenances non-simulated, 0.7 with
\* exactly one of them non-simulated, whichever it is, and 0.5 with both
\* simulated; swapping the two provenances leaves it unchanged.
C5_ConfidenceSymmetric ==
    pc = "agg:return" =>
        /\ agg[1].confidence =
              (IF NonSimulated(crime_source) /\ NonSimulated(geo_source) THEN 10
               ELSE IF NonSimulated(crime_source) \/ NonSimulated(geo_source) THEN 7
               ELSE 5)
        /\ agg[1].confidence = compute_overall_score(dim, geo_source, crime_source).confidence

---------------------------------------------------------------------------
(* tools/property_info_tool.py, core/scoring_engine.py, core/recommendations.py *)

S_home == <<"h", "o", "m", "e">>

S_rental == <<"r", "e", "n", "t", "a", "l">>

S_Rental == <<"R", "e", "n", "t", "a", "l">>

S_vacation_home == <<"v", "a", "c", "a", "t", "i", "o", "n", " ", "h", "o", "m", "e">>

S_business == <<"b", "u", "s", "i", "n", "e", "s", "s">>

S_castle == <<"c", "a", "s", "t", "l", "e">>

S_24 == <<"2", "4">>

S_24_7 == <<"2", "4", "/", "7">>

S_theft == <<"t", "h", "e", "f", "t">>

S_Theft_nearby == <<"T", "h", "e", "f", "t", " ", "n", "e", "a", "r", "b", "y">>

S_padded_elm == <<" ">> \o S_elm \o <<" ">>

\* an address naming two supported cities
S_New_York_Ave_Chicago == <<"N", "e", "w", " ", "Y", "o", "r", "k", " ", "A", "v", "e", ",", " ">> \o S_Chicago

get_property_info(property_type) ==
    LET t == Lower(property_type)
    IN  [base_exposure |-> (CASE t = S_home -> 25
                              [] t = S_rental -> 35
                              [] t = S_vacation_home -> 45
                              [] t = S_business -> 50
                              [] OTHER -> 30)]

\* a variant that leaves the value as it is
Clamp_none(x, lo, hi) == x

Clamp(x, lo, hi) == Min(Max(x, lo), hi)

\* int(round(num / den)) for num >= 0, den > 0: round() rounds halves to even
RoundHalfEven(num, den) ==
    LET q == num \div den
        twice == 2 * (num % den)
    IN  IF twice < den THEN q
        ELSE IF twice > den THEN q + 1
        ELSE IF q % 2 = 0 THEN q ELSE q + 1

\* dict.get(key, default)
Get(d, key, default) == IF key \in DOMAIN d THEN d[key] ELSE default

\* "<tag>" in risks_lower, the set of the lowercased tags
HasTag(tags, tag) == \E i \in 1..Len(tags) : Lower(tags[i]) = tag

\* violent * 0.6 + prop_crime * 0.3 + recent * 3 is a float sum.  Where the
\* exact sum is a whole number plus one half, the float sum is either that
\* number, and round() goes to the even neighbour, or a little below it, and
\* round() goes down.  These are the inputs in 0..100, 0..100, 0..30 of the
\* second kind for which the even neighbour is the upper one.
FloatSumBelowHalf ==
    { <<1, 23, 0>>, <<2, 31, 1>>, <<2, 41, 0>>, <<4, 57, 0>>, <<4, 57, 2>>, <<4, 57, 4>>,
      <<4, 67, 1>>, <<4, 67, 3>>, <<4, 77, 0>>, <<4, 77, 2>>, <<4, 87, 1>>, <<4, 97, 0>>,
      <<9, 57, 1>>, <<9, 57, 3>>, <<9, 67, 0>>, <<9, 67, 2>>, <<9, 77, 1>>, <<9, 87, 0>>,
      <<12, 1, 0>>, <<18, 9, 0>>, <<24, 57, 0>>, <<31, 3, 0>>, <<31, 3, 2>>, <<31, 3, 4>>,
      <<31, 13, 1>>, <<31, 13, 3>>, <<31, 23, 0>>, <<31, 23, 2>>, <<36, 3, 1>>, <<36, 3, 3>>,
      <<36, 13, 0>>, <<36, 13, 2>>, <<36, 23, 1>>, <<41, 3, 0>>, <<41, 3, 2>>, <<41, 13, 1>>,
      <<41, 23, 0>>, <<46, 3, 1>>, <<46, 13, 0>>, <<48, 9, 0>>, <<51, 3, 0>>, <<57, 1, 1>>,
      <<57, 1, 3>>, <<57, 1, 5>>, <<57, 1, 7>>, <<57, 1, 9>>, <<57, 11, 0>>, <<57, 11, 2>>,
      <<57, 11, 4>>, <<57, 11, 6>>, <<57, 11, 8>>, <<57, 21, 1>>, <<57, 21, 3>>, <<57, 21, 5>>,
      <<57, 21, 7>>, <<57, 31, 0>>, <<57, 31, 2>>, <<57, 31, 4>>, <<57, 31, 6>>, <<57, 41, 1>>,
      <<57, 41, 3>>, <<57, 41, 5>>, <<57, 51, 0>>, <<57, 51, 2>>, <<57, 51, 4>>, <<62, 1, 0>>,
      <<62, 1, 2>>, <<62, 1, 4>>, <<62, 1, 6>>, <<62, 1, 8>>, <<62, 11, 1>>, <<62, 11, 3>>,
      <<62, 11, 5>>, <<62, 11, 7>>, <<62, 21, 0>>, <<62, 21, 2>>, <<62, 21, 4>>, <<62, 21, 6>>,
      <<62, 31, 1>>, <<62, 31, 3>>, <<62, 31, 5>>, <<62, 41, 0>>, <<62, 41, 2>>, <<62, 41, 4>>,
      <<62, 51, 1>>, <<62, 51, 3>>, <<67, 1, 1>>, <<67, 1, 3>>, <<67, 1, 5>>, <<67, 1, 7>>,
      <<67, 11, 0>>, <<67, 11, 2>>, <<67, 11, 4>>, <<67, 11, 6>>, <<67, 21, 1>>, <<67, 21, 3>>,
      <<67, 21, 5>>, <<67, 31, 0>>, <<67, 31, 2>>, <<67, 31, 4>>, <<67, 41, 1>>, <<67, 41, 3>>,
      <<67, 51, 0>>, <<67, 51, 2>>, <<72, 1, 0>>, <<72, 1, 2>>, <<72, 1, 4>>, <<72, 1, 6>>,
      <<72, 11, 1>>, <<72, 11, 3>>, <<72, 11, 5>>, <<72, 21, 0>>, <<72, 21, 2>>, <<72, 21, 4>>,
      <<72, 31, 1>>, <<72, 31, 3>>, <<72, 41, 0>>, <<72, 41, 2>>, <<72, 51, 1>>, <<77, 1, 1>>,
      <<77, 1, 3>>, <<77, 1, 5>>, <<77, 11, 0>>, <<77, 11, 2>>, <<77, 11, 4>>, <<77, 21, 1>>,
      <<77, 21, 3>>, <<77, 31, 0>>, <<77, 31, 2>>, <<77, 41, 1>>, <<77, 51, 0>>, <<82, 1, 0>>,
      <<82, 1, 2>>, <<82, 1, 4>>, <<82, 11, 1>>, <<82, 11, 3>>, <<82, 21, 0>>, <<82, 21, 2>>,
      <<82, 31, 1>>, <<82, 41, 0>>, <<87, 1, 1>>, <<87, 1, 3>>, <<87, 11, 0>>, <<87, 11, 2>>,
      <<87, 21, 1>>, <<87, 31, 0>>, <<92, 1, 0>>, <<92, 1, 2>>, <<92, 11, 1>>, <<92, 21, 0>>,
      <<96, 3, 1>>, <<96, 13, 0>>, <<97, 1, 1>>, <<97, 11, 0>> }

\* a variant that drops the fraction
RoundCrimeRisk_floor(violent, prop_crime, recent) ==
    Min(violent * 6 + prop_crime * 3 + recent * 30, 100 * 10) \div 10

\* int(round(min(violent * 0.6 + prop_crime * 0.3 + recent * 3, 100)))
RoundCrimeRisk(violent, prop_crime, recent) ==
    LET crime_risk10 == Min(violent * 6 + prop_crime * 3 + recent * 30, 100 * 10)
    IN  IF <<violent, prop_crime, recent>> \in FloatSumBelowHalf
        THEN crime_risk10 \div 10
        ELSE RoundHalfEven(crime_risk10, 10)

\* a variant that ignores the gate
property_exposure_risk_ungated(prop, property_type_lower, fenced, gated) ==
    Clamp(Get(prop, "base_exposure", 30)
            + (IF ~fenced THEN 10 ELSE -5)
            + (IF property_type_lower = S_vacation_home THEN 15
               ELSE IF property_type_lower = S_home THEN -5 ELSE 0), 0, 100)

\* a variant in which a fence adds to the exposure
property_exposure_risk_fence_adds(prop, property_type_lower, fenced, gated) ==
    Clamp(Get(prop, "base_exposure", 30)
            + (IF fenced THEN 10 ELSE -5)
            + (IF ~gated THEN 10 ELSE -5)
            + (IF property_type_lower = S_vacation_home THEN 15
               ELSE IF property_type_lower = S_home THEN -5 ELSE 0), 0, 100)

\* lines 33-44
property_exposure_risk(prop, property_type_lower, fenced, gated) ==
    Clamp(Get(prop, "base_exposure", 30)
            + (IF ~fenced THEN 10 ELSE -5)
            + (IF ~gated THEN 10 ELSE -5)
            + (IF property_type_lower = S_vacation_home THEN 15
               ELSE IF property_type_lower = S_home THEN -5 ELSE 0), 0, 100)

\* a variant that takes a missing neighborhood type for urban
accessibility_risk_default_urban(geo, property_type_lower, fenced) ==
    Clamp((IF Get(geo, "neighborhood_type", "urban") = "urban" THEN 60 ELSE 40)
            + (IF ~fenced THEN 10 ELSE -5)
            + (IF property_type_lower = S_vacation_home THEN 12
               ELSE IF property_type_lower = S_home THEN -3 ELSE 0), 0, 100)

\* lines 46-57
accessibility_risk(geo, property_type_lower, fenced) ==
    Clamp((IF Get(geo, "neighborhood_type", "suburban") = "urban" THEN 60 ELSE 40)
            + (IF ~fenced THEN 10 ELSE -5)
            + (IF property_type_lower = S_vacation_home THEN 12
               ELSE IF property_type_lower = S_home THEN -3 ELSE 0), 0, 100)

\* a variant that matches the tags as they are written
neighborhood_risk_exact_tags(geo) ==
    LET nearby_risks == Get(geo, "nearby_risks", <<>>)
        In(tag) == \E i \in 1..Len(nearby_risks) : nearby_risks[i] = tag
    IN  RoundHalfEven(Clamp(Get(geo, "population_density", 3000)
                              + 100 * ((IF In(S_nightclub) THEN 20 ELSE 0)
                                       + (IF In(S_warehouse) THEN 15 ELSE 0)
                                       + (IF In(S_school) THEN 5 ELSE 0)), 0, 100 * 100), 100)

\* lines 59-73 and 107, in hundredths until the rounding
neighborhood_risk(geo) ==
    LET nearby_risks == Get(geo, "nearby_risks", <<>>)
    IN  RoundHalfEven(Clamp(Get(geo, "population_density", 3000)
                              + 100 * ((IF HasTag(nearby_risks, S_nightclub) THEN 20 ELSE 0)
                                       + (IF HasTag(nearby_risks, S_warehouse) THEN 15 ELSE 0)
                                       + (IF HasTag(nearby_risks, S_school) THEN 5 ELSE 0)), 0, 100 * 100), 100)

\* a variant that looks for "theft" in the notes as they are written
operational_risk_case_sensitive(property_type_lower, hours, notes) ==
    Clamp(20
            + (IF property_type_lower = S_vacation_home THEN 25 + 10
               ELSE IF property_type_lower = S_home THEN -5 ELSE 0)
            + (IF hours # None /\ hours[1] # <<>> /\ Contains(S_24, hours[1]) THEN 30 ELSE 0)
            + (IF notes # None /\ notes[1] # <<>> /\ Contains(S_theft, notes[1]) THEN 20 ELSE 0), 0, 100)

\* lines 75-92
operational_risk(property_type_lower, hours, notes) ==
    Clamp(20
            + (IF property_type_lower = S_vacation_home THEN 25 + 10
               ELSE IF property_type_lower = S_home THEN -5 ELSE 0)
            + (IF hours # None /\ hours[1] # <<>> /\ Contains(S_24, hours[1]) THEN 30 ELSE 0)
            + (IF notes # None /\ notes[1] # <<>> /\ Contains(S_theft, Lower(notes[1])) THEN 20 ELSE 0), 0, 100)

\* the five scores of compute_risk_dimensions; the summaries, which are text
\* built from the same values and feed no score, are left out
compute_risk_dimensions(crime, geo, prop, property_type, fenced, gated, hours, notes) ==
    LET property_type_lower == Lower(property_type)
        violent == Get(crime, "violent_crime_index", 0)
        prop_crime == Get(crime, "property_crime_index", 0)
        recent == Get(crime, "recent_incidents", 0)
    IN  [crime_risk |-> RoundCrimeRisk(violent, prop_crime, recent),
         property_exposure_risk |-> property_exposure_risk(prop, property_type_lower, fenced, gated),
         accessibility_risk |-> accessibility_risk(geo, property_type_lower, fenced),
         neighborhood_risk |-> neighborhood_risk(geo),
         operational_risk |-> operational_risk(property_type_lower, hours, notes)]

advanced_recommendations ==
    <<"Install advanced CCTV with remote monitoring", "Deploy regular security patrols", "Add smart perimeter lighting", "Upgrade fences and gates", "Enable controlled access systems">>

enhanced_recommendations ==
    <<"Install 1080p CCTV cameras", "Enable motion-activated lighting", "Improve fencing and gate systems">>

standard_recommendations ==
    <<"Install basic CCTV", "Improve door/window locks", "Trim shrubs to increase visibility">>

baseline_recommendations == <<"Basic home security recommended">>

\* a variant that tests the lowest threshold first
generate_recommendations_lowest_first(score) ==
    IF score > 40 * 100 THEN standard_recommendations
    ELSE IF score > 60 * 100 THEN enhanced_recommendations
    ELSE IF score > 75 * 100 THEN advanced_recommendations
    ELSE baseline_recommendations

\* a variant whose thresholds include the boundary
generate_recommendations_inclusive(score) ==
    IF score >= 75 * 100 THEN advanced_recommendations
    ELSE IF score >= 60 * 100 THEN enhanced_recommendations
    ELSE IF score >= 40 * 100 THEN standard_recommendations
    ELSE baseline_recommendations

\* score is in hundredths
generate_recommendations(score) ==
    IF score > 75 * 100 THEN advanced_recommendations
    ELSE IF score > 60 * 100 THEN enhanced_recommendations
    ELSE IF score > 40 * 100 THEN standard_recommendations
    ELSE baseline_recommendations

---------------------------------------------------------------------------
(* core/validation.py: AssessmentInput *)

allowed_types == {S_home, S_rental, S_vacation_home, S_business}

\* min_length=1 and validate_address, validate_property_type: the normalized
\* model, or None for a validation error
\* a variant that validates and passes the fields on as they arrived
AssessmentInput_as_given(raw) ==
    IF Len(raw.address) < 1 \/ Strip(raw.address) = <<>> THEN None
    ELSE IF Lower(raw.property_type) \notin allowed_types THEN None
    ELSE Some(raw)

\* Field(min_length=1) and the two field validators
AssessmentInput(raw) ==
    IF Len(raw.address) < 1 \/ Strip(raw.address) = <<>> THEN None
    ELSE IF Lower(raw.property_type) \notin allowed_types THEN None
    ELSE Some([raw EXCEPT !.address = Strip(raw.address), !.property_type = Lower(raw.property_type)])

---------------------------------------------------------------------------
(* api/router.py: assess_risk, one action per stage; the two resolvers run   *)
(* as the actions of NextGeo and NextCrime                                   *)

supported_cities == {S_chicago, S_new_york, S_los_angeles, S_san_francisco, S_philadelphia}

\* request bodies as they arrive
Payloads ==
    { [address |-> S_elm, property_type |-> S_home, fenced |-> FALSE, gated |-> FALSE, operating_hours |-> None, notes |-> None],
      [address |-> S_padded_elm, property_type |-> S_business, fenced |-> TRUE, gated |-> TRUE, operating_hours |-> Some(S_24_7), notes |-> Some(S_Theft_nearby)],
      [address |-> S_new_york, property_type |-> S_Rental, fenced |-> TRUE, gated |-> FALSE, operating_hours |-> Some(S_24_7), notes |-> None],
      [address |-> S_Chicago, property_type |-> S_vacation_home, fenced |-> FALSE, gated |-> TRUE, operating_hours |-> Some(S_24_7), notes |-> Some(S_Theft_nearby)],
      [address |-> S_philadelphia, property_type |-> S_business, fenced |-> FALSE, gated |-> FALSE, operating_hours |-> Some(S_24_7), notes |-> Some(S_Theft_nearby)],
      [address |-> S_New_York_Ave_Chicago, property_type |-> S_home, fenced |-> TRUE, gated |-> TRUE, operating_hours |-> None, notes |-> None],
      [address |-> S_blank, property_type |-> S_home, fenced |-> FALSE, gated |-> FALSE, operating_hours |-> None, notes |-> None],
      [address |-> S_empty, property_type |-> S_business, fenced |-> FALSE, gated |-> FALSE, operating_hours |-> None, notes |-> None],
      [address |-> S_elm, property_type |-> S_castle, fenced |-> TRUE, gated |-> TRUE, operating_hours |-> None, notes |-> None] }

AssessFrame == UNCHANGED <<api_key, variant, calls, strategy, crime_source, geo_source, replies, random_state, inflight>>

\* the request model is built before the handler runs; a validation error
\* ends the request with status 422
AssessValidate ==
    /\ pc = "assess:request"
    /\ LET model == AssessmentInput(payload)
       IN  IF model = None
           THEN /\ response' = Some([status |-> 422])
                /\ pc' = "assess:rejected"
                /\ UNCHANGED <<payload, address>>
           ELSE /\ payload' = model[1]
                /\ address' = model[1].address
                /\ pc' = "geo:entry"
                /\ UNCHANGED response
    /\ UNCHANGED <<geo_result, latitude, longitude, city, crime_result, dim, agg, prop_data, recommendations>>
    /\ AssessFrame

\* a variant that calls the crime resolver without the coordinates of the
\* geolocation result
AssessCity_no_coordinates ==
    /\ pc = "geo:return"
    /\ city' = None
    /\ pc' = "crime:entry"
    /\ UNCHANGED <<latitude, longitude, address, geo_result, crime_result, dim, agg, payload, prop_data, recommendations, response>>
    /\ AssessFrame

\* lines 49-68: the coordinates of the geolocation result and a supported city
\* named in its formatted address; supported_cities is a set, so which of
\* several matching names the loop meets first is not fixed
AssessCity ==
    /\ pc = "geo:return"
    /\ LET geo_data == geo_result[1]
           address_lower == Lower(geo_data.formatted_address)
           matches == {c \in supported_cities : Contains(c, address_lower)}
       IN  /\ latitude' = geo_data.latitude
           /\ longitude' = geo_data.longitude
           /\ IF matches = {} THEN city' = None
              ELSE \E c \in matches : city' = Some(c)
    /\ pc' = "crime:entry"
    /\ UNCHANGED <<address, geo_result, crime_result, dim, agg, payload, prop_data, recommendations, response>>
    /\ AssessFrame

\* line 72
AssessProperty ==
    /\ pc = "crime:return"
    /\ prop_data' = Some(get_property_info(payload.property_type))
    /\ pc' = "assess:score"
    /\ UNCHANGED <<address, geo_result, latitude, longitude, city, crime_result, dim, agg, payload, recommendations, response>>
    /\ AssessFrame

\* a variant in which the scorer retags the crime result it was given
AssessScore_retagging ==
    /\ pc = "assess:score"
    /\ dim' = compute_risk_dimensions(crime_result[1], geo_result[1], prop_data[1], payload.property_type,
                                      payload.fenced, payload.gated, payload.operating_hours, payload.notes)
    /\ crime_result' = Some([crime_result[1] EXCEPT !.source = "simulated"])
    /\ pc' = "assess:aggregate"
    /\ UNCHANGED <<address, geo_result, latitude, longitude, city, agg, payload, prop_data, recommendations, response>>
    /\ AssessFrame

\* lines 78-92
AssessScore ==
    /\ pc = "assess:score"
    /\ dim' = compute_risk_dimensions(crime_result[1], geo_result[1], prop_data[1], payload.property_type,
                                      payload.fenced, payload.gated, payload.operating_hours, payload.notes)
    /\ pc' = "assess:aggregate"
    /\ UNCHANGED <<address, geo_result, latitude, longitude, city, crime_result, agg, payload, prop_data, recommendations, response>>
    /\ AssessFrame

\* lines 95-100
AssessAggregate ==
    /\ pc = "assess:aggregate"
    /\ agg' = Some(compute_overall_score(dim, Some(crime_result[1].source), Some(geo_result[1].source)))
    /\ pc' = "assess:recommend"
    /\ UNCHANGED <<address, geo_result, latitude, longitude, city, crime_result, dim, payload, prop_data, recommendations, response>>
    /\ AssessFrame

\* lines 103-108
AssessRecommend ==
    /\ pc = "assess:recommend"
    /\ recommendations' = Some(generate_recommendations(agg[1].overall))
    /\ pc' = "assess:respond"
    /\ UNCHANGED <<address, geo_result, latitude, longitude, city, crime_result, dim, agg, payload, prop_data, response>>
    /\ AssessFrame

\* lines 111-133
AssessRespond ==
    /\ pc = "assess:respond"
    /\ response' = Some([status |-> 200,
                         address |-> payload.address,
                         property_type |-> payload.property_type,
                         fenced |-> payload.fenced,
                         gated |-> payload.gated,
                         operating_hours |-> payload.operating_hours,
                         notes |-> payload.notes,
                         risk_dimensions |-> dim,
                         overall_score |-> agg[1].overall,
                         confidence |-> agg[1].confidence,
                         recommendations |-> recommendations[1],
                         api_sources_used |-> [crime_data |-> crime_result[1].source, geolocation |-> geo_result[1].source],
                         coordinates |-> IF latitude.kind # "none" /\ longitude.kind # "none"
                                         THEN Some([latitude |-> latitude, longitude |-> longitude])
                                         ELSE None])
    /\ pc' = "assess:done"
    /\ UNCHANGED <<address, geo_result, latitude, longitude, city, crime_result, dim, agg, payload, prop_data, recommendations>>
    /\ AssessFrame

Init ==
    /\ pc = "assess:request"
    /\ api_key \in ApiKeys
    /\ payload \in Payloads
    /\ address = <<>>
    /\ variant = 1
    /\ calls = <<>>
    /\ geo_result = None
    /\ latitude = PyNone
    /\ longitude = PyNone
    /\ city = None
    /\ crime_result = None
    /\ strategy = <<>>
    /\ crime_source = None
    /\ geo_source = None
    /\ dim = NoDim
    /\ agg = None
    /\ prop_data = None
    /\ recommendations = None
    /\ response = None
    /\ replies = <<>>
    /\ NoConcurrency

\* every geolocation result carries float coordinates, so the call at line 68
\* always supplies them and get_crime_data returns from its city or its
\* estimation stage
Next ==
    \/ AssessValidate
    \/ NextGeo
    \/ AssessCity
    \/ CrimeCity
    \/ CrimeCoords
    \/ AssessProperty
    \/ AssessScore
    \/ AssessAggregate
    \/ AssessRecommend
    \/ AssessRespond

Spec == Init /\ [][Next]_vars

---------------------------------------------------------------------------
(* Properties of assess_risk, checked under Spec *)

Responded == pc = "assess:done"

\* the stages of get_crime_data that the request handler can be in
CrimeStagesOfRequest == pc \notin {"crime:geocode", "crime:simulate", "crime:raised", "geo:raised"}

SimulatedFamilyGeo == {"simulated_fallback", "simulated_empty_address"}

SimulatedFamilyCrime == {"simulated", "simulated_error"}

\* C6: whenever the geolocation result or the crime result used in a response
\* carries a simulated-family provenance, the response's confidence is below
\* 1.0; 1.0 is reported only when neither came from a simulation fallback.
C6_SimulatedLowersConfidence ==
    Responded =>
        ((geo_result[1].source \in SimulatedFamilyGeo \/ crime_result[1].source \in SimulatedFamilyCrime)
            => response[1].confidence < 10)

---------------------------------------------------------------------------
(* Properties of the city query inside get_crime_data, checked under SpecCrime *)

\* the first strategy was the city query, a request went to a city endpoint
\* and the query gave no result
CityQueryFailed ==
    /\ strategy # <<>>
    /\ strategy[1] = "city"
    /\ calls # <<>>
    /\ calls[Len(calls)].provider \in {"chicago", "new york", "los angeles", "san francisco"}
    /\ ~calls[Len(calls)].ok

Finite == latitude.kind = "num" /\ longitude.kind = "num"

\* what C11 says of a call whose city query failed
C11_Outcome ==
    /\ pc # "crime:raised"
    /\ pc # "crime:entry"
    /\ CrimeReturned =>
          /\ crime_result[1].source \in EstimationSources
          /\ strategy = <<"city", "estimate">>

\* C11: when the city query ends in a non-200 status, a timeout, another
\* exception or an empty payload it gives no result and raises nothing, and
\* get_crime_data, called with coordinates, then returns a coordinate
\* estimation, never an error and never a simulated result.
C11_CityFailureEstimates ==
    (CityQueryFailed /\ Supplied) => C11_Outcome

\* C11 as amended: the same for finite coordinates; with a non-finite
\* coordinate the estimation itself fails and the result is tagged
\* simulated_error.
C11_CityFailureEstimatesAmended ==
    /\ (CityQueryFailed /\ Supplied /\ Finite) => C11_Outcome
    /\ (CityQueryFailed /\ Supplied /\ ~Finite /\ CrimeReturned) => crime_result[1].source = "simulated_error"

\* C11 witness: the Chicago endpoint was asked twice and gave nothing, and the
\* call returned an estimate from the supplied coordinates.
C11_Witness ==
    /\ CrimeReturned
    /\ CityQueryFailed
    /\ Finite
    /\ Len(calls) = 2
    /\ calls[1].provider = "chicago"
    /\ crime_result[1].source \in EstimationSources

---------------------------------------------------------------------------
(* core/scoring_engine.py: compute_risk_dimensions on its own *)

S_Nightclub == <<"N", "i", "g", "h", "t", "C", "l", "u", "b">>

S_9_5 == <<"9", "-", "5">>

S_quiet_street == <<"q", "u", "i", "e", "t", " ", "s", "t", "r", "e", "e", "t">>

\* crime dicts: complete ones, and ones with fields missing
CrimeSamples ==
    { [source |-> "simulated"],
      [source |-> "nypd_api", violent_crime_index |-> 3],
      [source |-> "nypd_api", violent_crime_index |-> 50, property_crime_index |-> 40, recent_incidents |-> 10],
      [source |-> "nypd_api", violent_crime_index |-> 1, property_crime_index |-> 23, recent_incidents |-> 0],
      [source |-> "nypd_api", violent_crime_index |-> 0, property_crime_index |-> 15, recent_incidents |-> 0],
      [source |-> "nypd_api", violent_crime_index |-> 0, property_crime_index |-> 5, recent_incidents |-> 0],
      [source |-> "nypd_api", violent_crime_index |-> 100, property_crime_index |-> 100, recent_incidents |-> 30] }

\* geo dicts: the resolvers' three kinds, one with every scored field missing,
\* a very dense one, and ones with an upper-case tag and odd densities
GeoSamples ==
    { [source |-> "nominatim", neighborhood_type |-> "urban", population_density |-> 8000, nearby_risks |-> <<S_nightclub, S_warehouse, S_school>>],
      [source |-> "nominatim", neighborhood_type |-> "suburban", population_density |-> 3000, nearby_risks |-> <<S_school>>],
      [source |-> "nominatim", neighborhood_type |-> "rural", population_density |-> 500, nearby_risks |-> <<>>],
      [source |-> "simulated"],
      [source |-> "nominatim", neighborhood_type |-> "urban", population_density |-> 20000, nearby_risks |-> <<S_nightclub, S_warehouse, S_school>>],
      [source |-> "nominatim", neighborhood_type |-> "rural", population_density |-> 550, nearby_risks |-> <<S_Nightclub>>],
      [source |-> "nominatim", neighborhood_type |-> "suburban", population_density |-> 250, nearby_risks |-> <<S_warehouse>>] }

\* property profiles: a low, an ordinary and a high base, and one without it
PropSamples ==
    { [base_exposure |-> 0], [base_exposure |-> 25], [base_exposure |-> 95], [source |-> "unknown"] }

ScorePayloads ==
    { [address |-> S_elm, property_type |-> t, fenced |-> f, gated |-> g, operating_hours |-> h, notes |-> n] :
        t \in {S_home, S_rental, S_Rental, S_vacation_home, S_business},
        f \in BOOLEAN, g \in BOOLEAN,
        h \in {None, Some(S_empty), Some(S_24_7), Some(S_9_5)},
        n \in {None, Some(S_Theft_nearby), Some(S_quiet_street)} }

ScoreFrame == UNCHANGED <<api_key, address, variant, calls, geo_result, latitude, longitude, city, crime_result, strategy, crime_source, geo_source, agg, payload, prop_data, recommendations, response, replies, random_state, inflight>>

\* one call of compute_risk_dimensions
Score ==
    /\ pc = "score:entry"
    /\ dim' = compute_risk_dimensions(crime_result[1], geo_result[1], prop_data[1], payload.property_type,
                                      payload.fenced, payload.gated, payload.operating_hours, payload.notes)
    /\ pc' = "score:return"
    /\ ScoreFrame

InitScore ==
    /\ pc = "score:entry"
    /\ api_key = ""
    /\ address = <<>>
    /\ variant = 1
    /\ calls = <<>>
    /\ geo_result \in {Some(g) : g \in GeoSamples}
    /\ latitude = PyNone
    /\ longitude = PyNone
    /\ city = None
    /\ crime_result \in {Some(c) : c \in CrimeSamples}
    /\ strategy = <<>>
    /\ crime_source = None
    /\ geo_source = None
    /\ dim = NoDim
    /\ agg = None
    /\ payload \in ScorePayloads
    /\ prop_data \in {Some(p) : p \in PropSamples}
    /\ recommendations = None
    /\ response = None
    /\ replies = <<>>
    /\ NoConcurrency

NextScore == Score

SpecScore == InitScore /\ [][NextScore]_vars

---------------------------------------------------------------------------
(* Properties of the scores in a response, checked under Spec *)

Scored == pc \in {"assess:aggregate", "assess:recommend", "assess:respond", "assess:done"}

Aggregated == pc \in {"assess:recommend", "assess:respond", "assess:done"}

\* C12: for every valid request and every crime and geolocation result the
\* resolvers produce, each of the five dimension scores is an integer in
\* [0,100], the overall score lies in [0,100] and the confidence is one of
\* 0.5, 0.7 and 1.0.
C12_ScoresInRange ==
    /\ Scored =>
          /\ DOMAIN dim = DimKeys
          /\ \A k \in DimKeys : dim[k] \in 0..100
    /\ Aggregated =>
          /\ agg[1].overall \in 0..(100 * 100)
          /\ agg[1].confidence \in {5, 7, 10}
    /\ Responded =>
          /\ response[1].risk_dimensions = dim
          /\ response[1].overall_score = agg[1].overall
          /\ response[1].confidence = agg[1].confidence

\* C12 witness: a response for a vacation home open around the clock with a
\* theft noted, whose raw operational score of 105 was clamped to 100.
C12_Witness ==
    /\ Responded
    /\ payload.property_type = S_vacation_home
    /\ payload.operating_hours = Some(S_24_7)
    /\ payload.notes = Some(S_Theft_nearby)
    /\ response[1].risk_dimensions.operational_risk = 100

---------------------------------------------------------------------------
(* Properties of the overall score, checked under SpecAgg *)

\* the weighted sum in hundredths
WeightedSum100(c, p, a, n, o) == 35 * c + 25 * p + 15 * a + 15 * n + 10 * o

ExampleDim ==
    [crime_risk |-> 50, property_exposure_risk |-> 40, accessibility_risk |-> 30, neighborhood_risk |-> 20, operational_risk |-> 10]

\* what C13 says apart from its example
C13_Formula ==
    LET s == WeightedSum100(dim.crime_risk, dim.property_exposure_risk, dim.accessibility_risk,
                            dim.neighborhood_risk, dim.operational_risk)
    IN  /\ agg[1].overall = (IF s < 0 THEN 0 ELSE IF s > 100 * 100 THEN 100 * 100 ELSE s)
        /\ \A cs \in SourceSamples, gs \in SourceSamples :
              compute_overall_score(dim, cs, gs).overall = agg[1].overall

\* C13: for dimension scores in [0,100] the overall score is
\* crime*0.35 + exposure*0.25 + accessibility*0.15 + neighborhood*0.15 +
\* operational*0.10, rounded to two decimals and clamped to [0,100]; it
\* depends on the five values only (the provenances do not change it), and
\* 50, 40, 30, 20, 10 give 36.5.
C13_OverallIsWeightedSum ==
    pc = "agg:return" =>
        /\ C13_Formula
        /\ dim = ExampleDim => agg[1].overall = 3650

\* C13 as amended: the same, except that 50, 40, 30, 20, 10 give 36.0
\* (17.5 + 10 + 4.5 + 3 + 1).
C13_OverallIsWeightedSumAmended ==
    pc = "agg:return" =>
        /\ C13_Formula
        /\ dim = ExampleDim => agg[1].overall = 3600

\* C13 witness: the scores 50, 40, 30, 20, 10 were aggregated to 36.0.
C13_Witness ==
    /\ pc = "agg:return"
    /\ dim = ExampleDim
    /\ agg[1].overall = 3600

---------------------------------------------------------------------------
(* Properties of compute_risk_dimensions, checked under SpecScore *)

ScoreReturned == pc = "score:return"

\* the arguments of the call
ArgCrime == crime_result[1]

ArgGeo == geo_result[1]

ArgProp == prop_data[1]

\* a field of the crime dict, 0 when it is missing
CrimeField(name) == IF name \in DOMAIN ArgCrime THEN ArgCrime[name] ELSE 0

Category == Lower(payload.property_type)

IsVacationHome == Category = S_vacation_home

IsHome == Category = S_home

Clamped(x) == IF x < 0 THEN 0 ELSE IF x > 100 THEN 100 ELSE x

\* n is a nearest integer to x100 / 100
NearestTo(n, x100) == 100 * n - x100 <= 50 /\ x100 - 100 * n <= 50

\* C14: for indices in [0,100] and recent incidents in [0,30], crime_risk is
\* violent*0.6 + property*0.3 + recent*3, capped at 100 and rounded to the
\* nearest integer (a sum ending in .5 lies as near to one neighbour as to
\* the other); 50, 40, 10 give 72; a missing field counts as 0.
C14_CrimeRisk ==
    ScoreReturned =>
        LET violent == CrimeField("violent_crime_index")
            property == CrimeField("property_crime_index")
            recent == CrimeField("recent_incidents")
            raw100 == 60 * violent + 30 * property + 300 * recent
            capped100 == IF raw100 > 100 * 100 THEN 100 * 100 ELSE raw100
        IN  (violent \in 0..100 /\ property \in 0..100 /\ recent \in 0..30) =>
                /\ NearestTo(dim.crime_risk, capped100)
                /\ (violent = 50 /\ property = 40 /\ recent = 10) => dim.crime_risk = 72

\* C14 witness: the indices 50, 40 and 10 were scored 72.
C14_Witness ==
    /\ ScoreReturned
    /\ CrimeField("violent_crime_index") = 50
    /\ CrimeField("property_crime_index") = 40
    /\ CrimeField("recent_incidents") = 10
    /\ dim.crime_risk = 72

\* C15: property_exposure_risk is base_exposure + (10 if not fenced else -5)
\* + (10 if not gated else -5) + the category adjustment (vacation home +15,
\* home -5, rental and business 0), clamped to [0,100]; with no category
\* adjustment, base 25 unfenced and ungated gives 45, fenced and gated 15.
C15_PropertyExposure ==
    (ScoreReturned /\ "base_exposure" \in DOMAIN ArgProp) =>
        LET base == ArgProp.base_exposure
            adjustment == IF IsVacationHome THEN 15 ELSE IF IsHome THEN -5 ELSE 0
            raw == base + (IF payload.fenced THEN -5 ELSE 10) + (IF payload.gated THEN -5 ELSE 10) + adjustment
        IN  /\ dim.property_exposure_risk = Clamped(raw)
            /\ (base = 25 /\ adjustment = 0 /\ ~payload.fenced /\ ~payload.gated) => dim.property_exposure_risk = 45
            /\ (base = 25 /\ adjustment = 0 /\ payload.fenced /\ payload.gated) => dim.property_exposure_risk = 15

\* C15 witness: a fenced and gated rental with base 25 was scored 15.
C15_Witness ==
    /\ ScoreReturned
    /\ ArgProp = [base_exposure |-> 25]
    /\ Category = S_rental
    /\ payload.fenced
    /\ payload.gated
    /\ dim.property_exposure_risk = 15

\* C16: accessibility_risk is 60 for an urban neighborhood and 40 for a
\* suburban, rural or missing one, + (10 if not fenced else -5) + the category
\* adjustment (vacation home +12, home -3, others 0), clamped to [0,100]; with
\* no category adjustment, urban unfenced gives 70 and suburban fenced 35.
C16_Accessibility ==
    ScoreReturned =>
        LET urban == "neighborhood_type" \in DOMAIN ArgGeo /\ ArgGeo.neighborhood_type = "urban"
            suburban == "neighborhood_type" \in DOMAIN ArgGeo /\ ArgGeo.neighborhood_type = "suburban"
            adjustment == IF IsVacationHome THEN 12 ELSE IF IsHome THEN -3 ELSE 0
            raw == (IF urban THEN 60 ELSE 40) + (IF payload.fenced THEN -5 ELSE 10) + adjustment
        IN  /\ dim.accessibility_risk = Clamped(raw)
            /\ (urban /\ adjustment = 0 /\ ~payload.fenced) => dim.accessibility_risk = 70
            /\ (suburban /\ adjustment = 0 /\ payload.fenced) => dim.accessibility_risk = 35

\* C16 witness: an unfenced business with no neighborhood type in the
\* geolocation data was scored 50.
C16_Witness ==
    /\ ScoreReturned
    /\ "neighborhood_type" \notin DOMAIN ArgGeo
    /\ Category = S_business
    /\ ~payload.fenced
    /\ dim.accessibility_risk = 50

\* a tag of the geolocation data equals the given lowercase tag when case is
\* ignored
TagPresent(tag) ==
    /\ "nearby_risks" \in DOMAIN ArgGeo
    /\ \E i \in 1..Len(ArgGeo.nearby_risks) : Lower(ArgGeo.nearby_risks[i]) = tag

\* C17: neighborhood_risk is population_density/100, plus 20 with a
\* 'nightclub' tag, plus 15 with 'warehouse', plus 5 with 'school', the tags
\* matched without regard to case, clamped to [0,100] and rounded to the
\* nearest integer; it never exceeds 100 (density 20000 with all three tags
\* gives at most 100).
C17_NeighborhoodRisk ==
    (ScoreReturned /\ "population_density" \in DOMAIN ArgGeo) =>
        LET raw100 == ArgGeo.population_density
                        + (IF TagPresent(S_nightclub) THEN 20 * 100 ELSE 0)
                        + (IF TagPresent(S_warehouse) THEN 15 * 100 ELSE 0)
                        + (IF TagPresent(S_school) THEN 5 * 100 ELSE 0)
            clamped100 == IF raw100 < 0 THEN 0 ELSE IF raw100 > 100 * 100 THEN 100 * 100 ELSE raw100
        IN  /\ NearestTo(dim.neighborhood_risk, clamped100)
            /\ dim.neighborhood_risk <= 100

\* C17 witness: density 550 with the tag "NightClub" was scored 26 (5.5 + 20,
\* rounded to the even neighbour).
C17_Witness ==
    /\ ScoreReturned
    /\ ArgGeo.source = "nominatim"
    /\ ArgGeo.population_density = 550
    /\ ArgGeo.nearby_risks = <<S_Nightclub>>
    /\ dim.neighborhood_risk = 26

\* C18: operational_risk is 20 + the category adjustment (vacation home +35,
\* home -5, others 0) + 30 if the operating hours contain '24' + 20 if the
\* notes contain 'theft' in any case, clamped to [0,100]; absent hours or
\* notes add nothing; a rental or business with hours '24/7' and notes that
\* mention theft is scored 70.
C18_OperationalRisk ==
    ScoreReturned =>
        LET adjustment == IF IsVacationHome THEN 35 ELSE IF IsHome THEN -5 ELSE 0
            hours == payload.operating_hours
            notes == payload.notes
            has24 == hours # None /\ Contains(S_24, hours[1])
            hasTheft == notes # None /\ Contains(S_theft, Lower(notes[1]))
            raw == 20 + adjustment + (IF has24 THEN 30 ELSE 0) + (IF hasTheft THEN 20 ELSE 0)
        IN  /\ dim.operational_risk = Clamped(raw)
            /\ (hours = None /\ notes = None) => dim.operational_risk = 20 + adjustment
            /\ (Category \in {S_rental, S_business} /\ hours = Some(S_24_7) /\ notes = Some(S_Theft_nearby))
                  => dim.operational_risk = 70

\* C18 witness: a business open 24/7 with the note "Theft nearby" was scored 70.
C18_Witness ==
    /\ ScoreReturned
    /\ Category = S_business
    /\ payload.operating_hours = Some(S_24_7)
    /\ payload.notes = Some(S_Theft_nearby)
    /\ dim.operational_risk = 70

---------------------------------------------------------------------------
(* core/recommendations.py: generate_recommendations on its own *)

\* scores in hundredths: every half point from -1 to 120, and the hundredths
\* next to each threshold
ScoreSamples ==
    {50 * i : i \in -2..240}
    \cup {t * 100 + d : t \in {40, 60, 75}, d \in {-1, 1}}

RecFrame == UNCHANGED <<api_key, address, variant, calls, geo_result, latitude, longitude, city, crime_result, strategy, crime_source, geo_source, dim, agg, payload, prop_data, response, replies, random_state, inflight>>

\* one call of generate_recommendations
Recommend ==
    /\ pc = "rec:entry"
    /\ recommendations' = Some(generate_recommendations(agg[1].overall))
    /\ pc' = "rec:return"
    /\ RecFrame

InitRec ==
    /\ pc = "rec:entry"
    /\ api_key = ""
    /\ address = <<>>
    /\ variant = 1
    /\ calls = <<>>
    /\ geo_result = None
    /\ latitude = PyNone
    /\ longitude = PyNone
    /\ city = None
    /\ crime_result = None
    /\ strategy = <<>>
    /\ crime_source = None
    /\ geo_source = None
    /\ dim = NoDim
    /\ agg \in {Some([overall |-> s, confidence |-> 10]) : s \in ScoreSamples}
    /\ NoRequest
    /\ replies = <<>>
    /\ NoConcurrency

NextRec == Recommend

SpecRec == InitRec /\ [][NextRec]_vars

---------------------------------------------------------------------------
(* Properties of generate_recommendations, checked under SpecRec *)

RecReturned == pc = "rec:return"

\* C19: every score gets exactly one tier, the highest threshold first: above
\* 75 the 5-item advanced list, else above 60 the 3-item enhanced list, else
\* above 40 the 3-item standard list, else the 1-item baseline advisory; the
\* list is never empty.
C19_RecommendationTiers ==
    RecReturned =>
        LET score == agg[1].overall
            r == recommendations[1]
        IN  /\ score > 7500 => r = advanced_recommendations /\ Len(r) = 5
            /\ (score <= 7500 /\ score > 6000) => r = enhanced_recommendations /\ Len(r) = 3
            /\ (score <= 6000 /\ score > 4000) => r = standard_recommendations /\ Len(r) = 3
            /\ score <= 4000 => r = baseline_recommendations /\ Len(r) = 1
            /\ Cardinality({advanced_recommendations, enhanced_recommendations, standard_recommendations, baseline_recommendations}) = 4
            /\ Len(r) >= 1

\* C19 witness: the score 60.01 got the enhanced list.
C19_Witness ==
    /\ RecReturned
    /\ agg[1].overall = 6001
    /\ recommendations[1] = enhanced_recommendations

\* C20: the score 75.0 gets the standard (moderate) list and not the 5-item
\* advanced list, the threshold being strictly greater-than, and 75.01 gets
\* the advanced list.
C20_Boundary75 ==
    RecReturned =>
        /\ agg[1].overall = 7500 =>
              /\ recommendations[1] = standard_recommendations
              /\ recommendations[1] # advanced_recommendations
        /\ agg[1].overall = 7501 => recommendations[1] = advanced_recommendations

\* C20 as amended: the score 75.0 gets the 3-item enhanced list of the tier
\* above 60, not the advanced list, and 75.01 gets the advanced list.
C20_Boundary75Amended ==
    RecReturned =>
        /\ agg[1].overall = 7500 =>
              /\ recommendations[1] = enhanced_recommendations
              /\ recommendations[1] # advanced_recommendations
        /\ agg[1].overall = 7501 => recommendations[1] = advanced_recommendations

\* C20 witness: the score 75.0 got the enhanced list.
C20_Witness ==
    /\ RecReturned
    /\ agg[1].overall = 7500
    /\ recommendations[1] = enhanced_recommendations

---------------------------------------------------------------------------
(* api/router.py: assess_risk when a core stage raises.  The scorer, the     *)
(* aggregator and the recommendation generator are called inside try blocks; *)
(* here each of them may also end in an exception, whatever its cause.       *)

\* a variant in which the outer handler wraps the stage's HTTPException
StageFailure_wrapped(detail) == [status |-> 500, detail |-> "Internal server error"]

\* raise HTTPException(status_code=500, detail=f"<stage message>: ..."), passed
\* on by `except HTTPException: raise`
StageFailure(detail) == [status |-> 500, detail |-> detail]

\* a variant without the fallback notice
RecommendOrFallback_empty(r) == IF r.raised THEN <<>> ELSE r.val

\* lines 103-108: the generator's list, or the fallback notice when it raised
RecommendOrFallback(r) ==
    IF r.raised THEN <<"Unable to generate recommendations">> ELSE r.val

\* lines 78-92 with compute_risk_dimensions raising
AssessScoreRaises ==
    /\ pc = "assess:score"
    /\ response' = Some(StageFailure("Error computing risk scores"))
    /\ pc' = "assess:error"
    /\ UNCHANGED <<address, geo_result, latitude, longitude, city, crime_result, dim, agg, payload, prop_data, recommendations>>
    /\ AssessFrame

\* lines 95-100 with compute_overall_score raising
AssessAggregateRaises ==
    /\ pc = "assess:aggregate"
    /\ response' = Some(StageFailure("Error computing overall score"))
    /\ pc' = "assess:error"
    /\ UNCHANGED <<address, geo_result, latitude, longitude, city, crime_result, dim, agg, payload, prop_data, recommendations>>
    /\ AssessFrame

\* lines 103-108 with generate_recommendations returning or raising
AssessRecommendOrFallback ==
    /\ pc = "assess:recommend"
    /\ \E r \in {Ret(generate_recommendations(agg[1].overall)), Raise} :
          recommendations' = Some(RecommendOrFallback(r))
    /\ pc' = "assess:respond"
    /\ UNCHANGED <<address, geo_result, latitude, longitude, city, crime_result, dim, agg, payload, prop_data, response>>
    /\ AssessFrame

NextFault ==
    \/ AssessValidate
    \/ NextGeo
    \/ AssessCity
    \/ CrimeCity
    \/ CrimeCoords
    \/ AssessProperty
    \/ AssessScore
    \/ AssessScoreRaises
    \/ AssessAggregate
    \/ AssessAggregateRaises
    \/ AssessRecommendOrFallback
    \/ AssessRespond

SpecFault == Init /\ [][NextFault]_vars

---------------------------------------------------------------------------
(* Properties of assess_risk with failing core stages, checked under SpecFault *)

Failed == pc = "assess:error"

FallbackNotice == <<"Unable to generate recommendations">>

\* the generator raised: what the request holds is not the generator's list
GeneratorRaised ==
    /\ pc \in {"assess:respond", "assess:done"}
    /\ recommendations[1] # generate_recommendations(agg[1].overall)

\* C22: when generate_recommendations raises, assess_risk still answers
\* successfully, with the dimensions, the overall score and the confidence
\* as computed and with the single fallback notice as recommendations.
C22_RecommendationFailureTolerated ==
    /\ GeneratorRaised =>
          /\ recommendations[1] = FallbackNotice
          /\ Len(recommendations[1]) = 1
          /\ pc # "assess:error"
    /\ (Responded /\ recommendations[1] = FallbackNotice) =>
          /\ response[1].status = 200
          /\ response[1].recommendations = FallbackNotice
          /\ response[1].risk_dimensions =
                compute_risk_dimensions(crime_result[1], geo_result[1], prop_data[1], payload.property_type,
                                        payload.fenced, payload.gated, payload.operating_hours, payload.notes)
          /\ response[1].overall_score =
                compute_overall_score(response[1].risk_dimensions, Some(crime_result[1].source), Some(geo_result[1].source)).overall
          /\ response[1].confidence =
                compute_overall_score(response[1].risk_dimensions, Some(crime_result[1].source), Some(geo_result[1].source)).confidence

\* C22 witness: a successful response whose recommendations are the fallback
\* notice.
C22_Witness ==
    /\ Responded
    /\ response[1].status = 200
    /\ response[1].recommendations = FallbackNotice
    /\ response[1].overall_score > 0

\* C23: when the scorer or the aggregator raises, assess_risk ends in a 500
\* error whose message names the failed stage; no body with scores is
\* produced and the recommendation stage does not run.
C23_CoreFailureIs500 ==
    /\ Failed =>
          /\ response[1].status = 500
          /\ DOMAIN response[1] = {"status", "detail"}
          /\ dim = NoDim => response[1].detail = "Error computing risk scores"
          /\ dim # NoDim => response[1].detail = "Error computing overall score"
          /\ agg = None
          /\ recommendations = None
    /\ (response # None /\ response[1].status = 500) => Failed

\* C23 witness: the aggregator raised after the scorer had returned.
C23_Witness ==
    /\ Failed
    /\ dim # NoDim
    /\ response[1].detail = "Error computing overall score"

---------------------------------------------------------------------------
(* Properties of a whole request, checked under Spec *)

ResponseKeys ==
    {"status", "address", "property_type", "fenced", "gated", "operating_hours", "notes", "risk_dimensions",
     "overall_score", "confidence", "recommendations", "api_sources_used", "coordinates"}

\* no provider answered with a usable location
AllGeocodersFailed == geo_result # None /\ geo_result[1].source = "simulated_fallback"

SuccessfulResponse ==
    /\ response # None
    /\ response[1].status = 200
    /\ DOMAIN response[1] = ResponseKeys
    /\ DOMAIN response[1].risk_dimensions = DimKeys
    /\ response[1].overall_score \in 0..(100 * 100)
    /\ response[1].confidence \in {5, 7, 10}
    /\ Len(response[1].recommendations) >= 1
    /\ DOMAIN response[1].api_sources_used = {"crime_data", "geolocation"}

\* the place of a control point in a request
StageOf(p) ==
    CASE p = "assess:request" -> 0
      [] p = "geo:entry" -> 1
      [] p = "geo:google" -> 2
      [] p = "geo:nominatim" -> 3
      [] p = "geo:photon" -> 4
      [] p = "geo:fallback" -> 5
      [] p = "geo:return" -> 6
      [] p = "crime:entry" -> 7
      [] p = "crime:coords" -> 8
      [] p = "crime:return" -> 9
      [] p = "assess:score" -> 10
      [] p = "assess:aggregate" -> 11
      [] p = "assess:recommend" -> 12
      [] p = "assess:respond" -> 13
      [] p \in {"assess:done", "assess:rejected"} -> 14
      [] OTHER -> -1

\* a step takes the request to a later control point, or to the next address
\* variant of the free geocoder
Advances ==
    \/ StageOf(pc') > StageOf(pc) /\ StageOf(pc) >= 0
    \/ pc = "geo:nominatim" /\ pc' = "geo:nominatim" /\ variant' = variant + 1 /\ variant' <= 3

AcceptableRequest(raw) ==
    /\ \E i \in 1..Len(raw.address) : raw.address[i] # " "
    /\ Lower(raw.property_type) \in {S_home, S_rental, S_vacation_home, S_business}

\* C24: a request whose address is empty or whitespace only, or whose
\* property_type is not one of home, rental, vacation home, business (compared
\* case-insensitively), is rejected with a validation error before any
\* resolver or provider is called; an accepted request enters the pipeline
\* with its address trimmed and its property_type in lower case.
C24_ValidationFirst ==
    /\ [](pc = "assess:rejected" =>
            /\ ~AcceptableRequest(payload)
            /\ response = Some([status |-> 422])
            /\ calls = <<>> /\ geo_result = None /\ crime_result = None /\ prop_data = None)
    /\ [](pc \notin {"assess:request", "assess:rejected"} =>
            /\ address = payload.address
            /\ payload.address = Strip(payload.address)
            /\ payload.address # <<>>
            /\ payload.property_type \in {S_home, S_rental, S_vacation_home, S_business})
    /\ [][pc = "assess:request" =>
            /\ calls = <<>> /\ calls' = <<>>
            /\ IF AcceptableRequest(payload)
               THEN /\ pc' = "geo:entry"
                    /\ payload'.address = Strip(payload.address)
                    /\ payload'.property_type = Lower(payload.property_type)
               ELSE pc' = "assess:rejected"]_vars

\* C24 witness: the request that arrived as ' 9 Elm ' entered the geolocation
\* resolver as '9 Elm' before any provider was called.
C24_Witness ==
    /\ pc = "geo:entry"
    /\ payload.operating_hours = Some(S_24_7)
    /\ payload.property_type = S_business
    /\ address = S_elm
    /\ calls = <<>>

\* the requests of this request sent to one provider, in order
CallsTo(p) == SelectSeq(calls, LAMBDA c : c.provider = p)

CityEndpoints == {"chicago", "new york", "los angeles", "san francisco"}

\* C25: within one request every provider endpoint other than the free
\* geocoder (with its address variants) is called at most once; a city
\* statistics endpoint, the premium geocoder and the alternative geocoder are
\* never called a second time after a failed call.
C25_NoRetries ==
    \A p \in CityEndpoints \cup {"google", "photon"} : Len(CallsTo(p)) <= 1

\* C25 as the code has it: the same, except that the Chicago endpoint is asked
\* a second time (without the date filter) after a first request that failed;
\* the free geocoder is called at most three times, and at most one city
\* endpoint is used in a request.
C25_NoRetriesAmended ==
    /\ \A p \in (CityEndpoints \ {"chicago"}) \cup {"google", "photon"} : Len(CallsTo(p)) <= 1
    /\ Len(CallsTo("chicago")) <= 2
    /\ Len(CallsTo("chicago")) = 2 => ~CallsTo("chicago")[1].ok
    /\ Len(CallsTo("nominatim")) <= 3
    /\ \A p, q \in CityEndpoints : (CallsTo(p) # <<>> /\ CallsTo(q) # <<>>) => p = q
    /\ \A i \in 1..Len(calls) : calls[i].provider \in CityEndpoints \cup {"google", "photon", "nominatim"}

\* C25 witness: the premium and the alternative geocoder were each called
\* once, the free geocoder three times, and the Chicago endpoint twice, the
\* second request succeeding.
C25_Witness ==
    /\ Len(CallsTo("google")) = 1
    /\ Len(CallsTo("photon")) = 1
    /\ Len(CallsTo("nominatim")) = 3
    /\ Len(CallsTo("chicago")) = 2
    /\ CallsTo("chicago")[2].ok
    /\ Responded

\* C26: the city that selects the crime statistics endpoint is the first of
\* san francisco, los angeles, new york, philadelphia, chicago whose name
\* occurs, case-insensitively, in the address text, so the same address always
\* selects the same city, in the request pipeline's detection over the
\* formatted address as in the resolver's own detection.
C26_CityByPriority ==
    pc \in {"crime:entry", "crime:coords", "crime:return"} =>
        city = _detect_city_from_address(geo_result[1].formatted_address)

\* C27: when the hinted or detected city has no query of its own
\* (philadelphia), get_crime_data calls no city statistics endpoint at all, in
\* particular not another city's, and with coordinates present returns a
\* coordinate-estimation result.
C27_NoEndpointForPhiladelphia ==
    (pc # "crime:entry" /\ CityToQuery(address, latitude, longitude, city) = Some(S_philadelphia)) =>
        /\ \A i \in 1..Len(calls) : calls[i].provider \notin CityEndpoints
        /\ (pc = "crime:return" /\ Finite) =>
                crime_result[1].source \notin {"chicago_api_realtime", "nypd_api", "la_api", "sf_api", "simulated", "simulated_error"}

\* the stage a control point belongs to: 1 geolocation resolver, 2 crime
\* resolver, 3 property profile, 4 dimension scorer, 5 aggregator,
\* 6 recommendation generator, 7 response; 0 before the first stage
StageNumber(p) ==
    CASE p \in {"geo:entry", "geo:google", "geo:nominatim", "geo:photon", "geo:fallback", "geo:return"} -> 1
      [] p \in {"crime:entry", "crime:coords"} -> 2
      [] p = "crime:return" -> 3
      [] p = "assess:score" -> 4
      [] p = "assess:aggregate" -> 5
      [] p = "assess:recommend" -> 6
      [] p \in {"assess:respond", "assess:done"} -> 7
      [] OTHER -> 0

\* C28: the stages of a request run in the order geolocation resolver, crime
\* resolver, property profile, dimension scorer, aggregator, recommendation
\* generator; the crime resolver starts only after the geolocation resolver
\* returned and receives its latitude and longitude, the scorer runs only
\* after both resolvers returned, the aggregator only after the scorer, and no
\* stage reads the recommendation output (it is produced after every other
\* stage's output and none of them changes afterwards).
C28_StageOrder ==
    /\ [][StageNumber(pc') \in {StageNumber(pc), StageNumber(pc) + 1} \/ pc' = "assess:rejected"]_vars
    /\ [](StageNumber(pc) <= 1 /\ pc # "geo:return" => geo_result = None)
    /\ [](StageNumber(pc) < 2 => (crime_result = None /\ strategy = <<>> /\ \A i \in 1..Len(calls) : calls[i].provider \notin CityEndpoints))
    /\ [](StageNumber(pc) >= 2 =>
            /\ geo_result # None
            /\ latitude = geo_result[1].latitude
            /\ longitude = geo_result[1].longitude)
    /\ [](StageNumber(pc) <= 3 => prop_data = None)
    /\ [](StageNumber(pc) >= 3 => crime_result # None)
    /\ [](StageNumber(pc) <= 4 => dim = NoDim)
    /\ [](StageNumber(pc) >= 4 => (geo_result # None /\ crime_result # None /\ prop_data # None))
    /\ [](StageNumber(pc) <= 5 => agg = None)
    /\ [](StageNumber(pc) >= 6 => (agg # None /\ agg = Some(compute_overall_score(dim, Some(crime_result[1].source), Some(geo_result[1].source)))))
    /\ [](StageNumber(pc) <= 6 => recommendations = None)
    /\ [][recommendations # None => UNCHANGED <<geo_result, latitude, longitude, city, crime_result, prop_data, dim, agg, recommendations>>]_vars

\* C28 witness: a request answered after a geocoder located the address and
\* the crime resolver, given the located point, queried a city endpoint.
C28_Witness ==
    /\ Responded
    /\ geo_result[1].source = "nominatim"
    /\ latitude = geo_result[1].latitude
    /\ latitude.kind = "num"
    /\ crime_result[1].source = "nypd_api"
    /\ recommendations # None

\* requests of this call to any city statistics endpoint
CityEndpointCalls == SelectSeq(calls, LAMBDA c : c.provider \in CityEndpoints)

---------------------------------------------------------------------------
(* The free geocoder's address variants, checked under SpecGeo *)

\* the i-th query the claim prescribes
PrescribedVariant(i) ==
    CASE i = 1 -> address
      [] i = 2 -> address \o <<",", " ", "U", "S", "A">>
      [] OTHER -> address \o <<",", " ", "U", "n", "i", "t", "e", "d", " ", "S", "t", "a", "t", "e", "s">>

\* the free geocoder step is over
NominatimDone ==
    \/ pc \in {"geo:photon", "geo:fallback"}
    \/ pc = "geo:return" /\ geo_result[1].source \in {"nominatim", "photon", "simulated_fallback"}

\* C30: the free geocoder tries at most three variants in the order: the
\* address as given, with ', USA' appended, with ', United States' appended;
\* it stops at the first variant answered with coordinates within legal
\* bounds, goes to the next variant when one raises, finds nothing or gives
\* out-of-bounds coordinates, and yields no result after the third failure.
C30_NominatimVariants ==
    LET n == CallsTo("nominatim")
    IN  /\ Len(n) <= 3
        /\ \A i \in 1..Len(n) : n[i].q = PrescribedVariant(i)
        /\ \A i \in 1..(Len(n) - 1) : ~n[i].ok
        /\ pc = "geo:nominatim" => (Len(n) = variant - 1 /\ \A i \in 1..Len(n) : ~n[i].ok)
        /\ (n # <<>> /\ n[Len(n)].ok) =>
              /\ pc = "geo:return"
              /\ geo_result[1].source = "nominatim"
              /\ Abs(geo_result[1].latitude.v) <= 90 * Scale
              /\ Abs(geo_result[1].longitude.v) <= 180 * Scale
        /\ (NominatimDone /\ (n = <<>> \/ ~n[Len(n)].ok)) =>
              /\ Len(n) = 3
              /\ geo_result = None \/ geo_result[1].source # "nominatim"
        /\ pc # "geo:raised"

\* C30 witness: the first two variants failed and the third, the address
\* with ', United States', was located.
C30_Witness ==
    /\ pc = "geo:return"
    /\ geo_result[1].source = "nominatim"
    /\ Len(CallsTo("nominatim")) = 3
    /\ calls[Len(calls)].q = address \o S_United_States
    /\ calls[Len(calls)].ok

---------------------------------------------------------------------------
(* The regions of the coordinate estimation, checked under SpecCrime *)

\* the boxes in the order of the claim, in 1/Scale degree
RegionBoxes ==
    << [south |-> 406500, north |-> 407000, west |-> -739500, east |-> -739000, tag |-> "coordinate_estimation_brooklyn_high_crime"],
       [south |-> 406000, north |-> 407500, west |-> -740500, east |-> -738500, tag |-> "coordinate_estimation_brooklyn"],
       [south |-> 407000, north |-> 408000, west |-> -740500, east |-> -739000, tag |-> "coordinate_estimation_manhattan"],
       [south |-> 405000, north |-> 409000, west |-> -743000, east |-> -737000, tag |-> "coordinate_estimation_nyc"] >>

InBox(b) ==
    /\ latitude.kind = "num" /\ longitude.kind = "num"
    /\ b.south <= latitude.v /\ latitude.v <= b.north
    /\ b.west <= longitude.v /\ longitude.v <= b.east

\* the provenance of the first region that contains the supplied point
FirstRegionTag ==
    LET hits == {i \in 1..Len(RegionBoxes) : InBox(RegionBoxes[i])}
    IN  IF hits = {} THEN "coordinate_estimation_urban"
        ELSE RegionBoxes[CHOOSE i \in hits : \A j \in hits : i <= j].tag

\* get_crime_data returned what the estimation on the supplied coordinates gave
EstimationAnswered ==
    /\ CrimeReturned
    /\ Supplied
    /\ strategy # <<>>
    /\ strategy[Len(strategy)] \in {"estimate", "error"}

\* C31: _get_crime_from_coordinates tests the regions in the order high-crime
\* sub-area, Brooklyn, Manhattan, NYC metro, urban catch-all and returns the
\* estimate of the first that contains the point; every coordinate pair gets
\* exactly one of the five coordinate_estimation_* provenances and the
\* function's trailing simulate_crime fallback is never reached.
C31_FirstRegionWins ==
    EstimationAnswered =>
        /\ crime_result[1].source = FirstRegionTag
        /\ crime_result[1].source \notin {"simulated", "simulated_error"}
        /\ crime_result[1].source = "coordinate_estimation_brooklyn_high_crime" =>
              /\ crime_result[1].violent_crime_index = 85
              /\ crime_result[1].property_crime_index = 75
              /\ crime_result[1].recent_incidents = 18

\* C31 for finite coordinates; on a non-finite coordinate no box matches and
\* the catch-all's int() raises, which get_crime_data turns into a result
\* tagged simulated_error.
C31_FirstRegionWinsAmended ==
    EstimationAnswered =>
        IF Finite
        THEN /\ strategy[Len(strategy)] = "estimate"
             /\ crime_result[1].source = FirstRegionTag
             /\ crime_result[1].source = "coordinate_estimation_brooklyn_high_crime" =>
                   /\ crime_result[1].violent_crime_index = 85
                   /\ crime_result[1].property_crime_index = 75
                   /\ crime_result[1].recent_incidents = 18
        ELSE /\ strategy[Len(strategy)] = "error"
             /\ crime_result[1].source = "simulated_error"

\* C31 witness: a point inside both the Brooklyn and the Manhattan box got
\* the Brooklyn estimate.
C31_Witness ==
    /\ EstimationAnswered
    /\ InBox(RegionBoxes[2]) /\ InBox(RegionBoxes[3]) /\ InBox(RegionBoxes[4])
    /\ crime_result[1].source = "coordinate_estimation_brooklyn"

---------------------------------------------------------------------------
(* tools/crime_data_tool.py: one call of _query_city_crime_api on given      *)
(* answers of the endpoint                                                    *)

\* the city names _query_city_crime_api is called with
CityNames == {S_chicago, S_new_york, S_los_angeles, S_san_francisco, S_philadelphia, S_boston}

CityFrame == UNCHANGED <<api_key, address, variant, geo_result, latitude, longitude, strategy, crime_source, geo_source, dim, agg, payload, prop_data, recommendations, response, city, replies, random_state, inflight>>

CityQuery ==
    /\ pc = "city:entry"
    /\ crime_result' = _query_city_crime_api(city[1], replies[1], replies[2]).val
    /\ calls' = CityCalls(city[1], replies[1], replies[2])
    /\ pc' = "city:return"
    /\ CityFrame

InitCity ==
    /\ pc = "city:entry"
    /\ api_key = ""
    /\ address = <<>>
    /\ variant = 1
    /\ calls = <<>>
    /\ geo_result = None
    /\ latitude = F(418781)
    /\ longitude = F(-876298)
    /\ city \in {Some(c) : c \in CityNames}
    /\ crime_result = None
    /\ strategy = <<>>
    /\ crime_source = None
    /\ geo_source = None
    /\ dim = NoDim
    /\ agg = None
    /\ NoRequest
    /\ replies \in {<<first, second>> : first \in CityReplies, second \in CityReplies}
    /\ NoConcurrency

NextCity == CityQuery

SpecCity == InitCity /\ [][NextCity]_vars

---------------------------------------------------------------------------
(* Properties of the city queries, checked under SpecCity *)

\* the answer the indices are computed from: the last one requested
AnswerUsed == replies[Len(calls)]

\* floors and multiplier of each endpoint as the claim lists them
IndexTable ==
    [e \in CityEndpoints |->
        CASE e = "chicago" -> [floor_v |-> 20, floor_p |-> 15, mult |-> 15]
          [] e = "new york" -> [floor_v |-> 25, floor_p |-> 20, mult |-> 15]
          [] e = "los angeles" -> [floor_v |-> 22, floor_p |-> 18, mult |-> 13]
          [] OTHER -> [floor_v |-> 20, floor_p |-> 15, mult |-> 11]]

\* min(100, max(floor, integer part of 100 * mult * count / n))
IndexOf(floor, mult, count, n) ==
    LET scaled == (100 * mult * count) \div n
        raised == IF scaled < floor THEN floor ELSE scaled
    IN  IF raised > 100 THEN 100 ELSE raised

\* C32: a city query that fetched n > 0 records gives
\* violent_index = min(100, max(floor_v, integer part of 100*mult*violent/n))
\* and property_index likewise with floor_p, with floors and multiplier
\* Chicago 20/15 and 15, New York 25/20 and 15, Los Angeles 22/18 and 13,
\* San Francisco 20/15 and 11; recent_incidents is min(30, records of the
\* last 7 days) for Chicago and min(20, n // 25) for the other cities.
C32_CityIndices ==
    (pc = "city:return" /\ crime_result # None) =>
        LET e == calls[1].provider
            t == IndexTable[e]
            a == AnswerUsed
        IN  /\ a.total > 0
            /\ crime_result[1].violent_crime_index = IndexOf(t.floor_v, t.mult, a.violent, a.total)
            /\ crime_result[1].property_crime_index = IndexOf(t.floor_p, t.mult, a.property, a.total)
            /\ crime_result[1].recent_incidents =
                  IF e = "chicago" THEN (IF a.recent > 30 THEN 30 ELSE a.recent)
                  ELSE (IF a.total \div 25 > 20 THEN 20 ELSE a.total \div 25)

---------------------------------------------------------------------------
(* The neighborhood heuristic, checked under SpecGeo *)

FromProvider == GeoReturned /\ geo_result[1].source \in {"google_maps", "nominatim", "photon"}

\* the neighborhood type the claim prescribes for the returned coordinates
PrescribedNeighborhood ==
    LET abs_lat == IF geo_result[1].latitude.v < 0 THEN -geo_result[1].latitude.v ELSE geo_result[1].latitude.v
        abs_lon == IF geo_result[1].longitude.v < 0 THEN -geo_result[1].longitude.v ELSE geo_result[1].longitude.v
    IN  IF abs_lat > 40 * Scale \/ abs_lon < 75 * Scale THEN "urban"
        ELSE IF abs_lat > 35 * Scale \/ abs_lon < 80 * Scale THEN "suburban"
        ELSE "rural"

\* the density and the risk tags the claim's table gives a neighborhood type
PrescribedDensity(nt) == CASE nt = "urban" -> 8000 [] nt = "suburban" -> 3000 [] OTHER -> 500

PrescribedTags(nt) ==
    CASE nt = "urban" -> {S_nightclub, S_warehouse, S_school}
      [] nt = "suburban" -> {S_school}
      [] OTHER -> {}

\* C33: every result obtained from a geocoding provider has neighborhood_type
\* urban if |latitude| > 40 or |longitude| < 75, else suburban if
\* |latitude| > 35 or |longitude| < 80, else rural, and its population_density
\* and nearby risk tags are the table entries of that type (urban 8000 with
\* nightclub, warehouse, school; suburban 3000 with school; rural 500, none).
C33_NeighborhoodHeuristic ==
    FromProvider =>
        /\ geo_result[1].latitude.kind = "num" /\ geo_result[1].longitude.kind = "num"
        /\ geo_result[1].neighborhood_type = PrescribedNeighborhood
        /\ geo_result[1].population_density = PrescribedDensity(PrescribedNeighborhood)
        /\ {geo_result[1].nearby_risks[i] : i \in 1..Len(geo_result[1].nearby_risks)} = PrescribedTags(PrescribedNeighborhood)
        /\ Len(geo_result[1].nearby_risks) = Cardinality(PrescribedTags(PrescribedNeighborhood))

\* C33 witness: the alternative geocoder located the address at latitude 40
\* exactly, longitude -77, and the result is suburban.
C33_Witness ==
    /\ FromProvider
    /\ geo_result[1].source = "photon"
    /\ geo_result[1].latitude = F(400000)
    /\ geo_result[1].neighborhood_type = "suburban"
    /\ geo_result[1].population_density = 3000

---------------------------------------------------------------------------
(* Two requests served concurrently by the worker threads of one process.    *)
(* What they share is the generator of module random, which simulate_geo      *)
(* draws from (tools/fallback/simulated_geo.py lines 9-29); everything else   *)
(* is local to a call of assess_risk.                                         *)

RequestIds == {1, 2}

\* output sequences of the generator, one per seed
RandomStreams ==
    { <<0, 0, 0, 0, 0, 0>>,
      <<0, 1, 2, 0, 1, 2>>,
      <<0, 0, 1, 2, 1, 0>>,
      <<2, 1, 0, 1, 2, 2>> }

\* the k-th smallest element of a finite set of integers, k counted from 0 modulo its size
NthOf(S, k) == CHOOSE x \in S : Cardinality({y \in S : y < x}) = k % Cardinality(S)

\* simulate_geo() on the generator state rs: random.choice, then two random.uniform
simulate_geo_drawing(rs) ==
    LET neighborhood == <<"urban", "suburban", "rural">>[rs.stream[rs.next] + 1]
    IN  simulate_geo(neighborhood,
                     NthOf(SimLatitudes(neighborhood), rs.stream[rs.next + 1]),
                     NthOf(SimLongitudes(neighborhood), rs.stream[rs.next + 2]))

\* what the free geocoder answers to every variant of a request's address
\* (no API key is configured and the alternative geocoder is unreachable)
GeocoderFates ==
    { [exc |-> "GeocoderTimedOut", location |-> None],
      [exc |-> "", location |-> Some([latitude |-> F(418781), longitude |-> F(-876298), address |-> S_elm])],
      [exc |-> "", location |-> Some([latitude |-> F(407800), longitude |-> F(-739700), address |-> S_new_york])] }

EndpointFates ==
    { [NoCityReply EXCEPT !.exc = "Timeout"],
      [NoCityReply EXCEPT !.json = "list", !.total = 40, !.violent = 1, !.property = 2, !.recent = 3] }

ConcurrentPayloads ==
    { [address |-> S_elm, property_type |-> S_home, fenced |-> FALSE, gated |-> FALSE, operating_hours |-> None, notes |-> None],
      [address |-> S_new_york, property_type |-> S_business, fenced |-> TRUE, gated |-> FALSE, operating_hours |-> Some(S_24_7), notes |-> None] }

\* get_geolocation_info of a request on the generator state rs
GeoOf(req, rs) ==
    LET r == NominatimAttempt(req.payload.address, req.geocoder)
    IN  IF r.val # None THEN r.val[1]
        ELSE FallbackResult(simulate_geo_drawing(rs), req.payload.address)

\* the values get_geolocation_info takes from the generator
DrawsOf(req) == IF NominatimAttempt(req.payload.address, req.geocoder).val # None THEN 0 ELSE 3

\* router lines 56-68 and get_crime_data with the coordinates of geo; the
\* addresses of this specification name at most one supported city
CrimeOf(req, geo) ==
    LET matches == {c \in supported_cities : Contains(c, Lower(geo.formatted_address))}
        hint == IF matches = {} THEN None ELSE Some(CHOOSE c \in matches : TRUE)
        c == CityToQuery(req.payload.address, geo.latitude, geo.longitude, hint)
        api == IF c = None THEN None ELSE _query_city_crime_api(c[1], req.endpoint, req.endpoint).val
    IN  IF api # None THEN api[1]
        ELSE _get_crime_from_coordinates(geo.latitude, geo.longitude).val

\* router lines 72-130
ResponseOf(req, geo, crime) ==
    LET p == req.payload
        dimensions == compute_risk_dimensions(crime, geo, get_property_info(p.property_type), p.property_type,
                                              p.fenced, p.gated, p.operating_hours, p.notes)
        scored == compute_overall_score(dimensions, Some(crime.source), Some(geo.source))
    IN  [status |-> 200,
         address |-> p.address,
         property_type |-> p.property_type,
         fenced |-> p.fenced,
         gated |-> p.gated,
         operating_hours |-> p.operating_hours,
         notes |-> p.notes,
         risk_dimensions |-> dimensions,
         overall_score |-> scored.overall,
         confidence |-> scored.confidence,
         recommendations |-> generate_recommendations(scored.overall),
         api_sources_used |-> [crime_data |-> crime.source, geolocation |-> geo.source],
         coordinates |-> Some([latitude |-> geo.latitude, longitude |-> geo.longitude])]

ConcurrentFrame == UNCHANGED <<pc, api_key, address, variant, calls, geo_result, latitude, longitude, city, crime_result, strategy, crime_source, geo_source, dim, agg, payload, prop_data, recommendations, response, replies>>

\* request r calls get_geolocation_info
ConcurrentGeo(r) ==
    /\ inflight[r].pc = "geo"
    /\ inflight' = [inflight EXCEPT ![r].geo = Some(GeoOf(inflight[r], random_state)), ![r].pc = "crime"]
    /\ random_state' = [random_state EXCEPT !.next = @ + DrawsOf(inflight[r])]
    /\ ConcurrentFrame

\* request r calls get_crime_data
ConcurrentCrime(r) ==
    /\ inflight[r].pc = "crime"
    /\ inflight' = [inflight EXCEPT ![r].crime = Some(CrimeOf(inflight[r], inflight[r].geo[1])), ![r].pc = "score"]
    /\ UNCHANGED random_state
    /\ ConcurrentFrame

\* request r scores, aggregates, recommends and responds
ConcurrentRespond(r) ==
    /\ inflight[r].pc = "score"
    /\ inflight' = [inflight EXCEPT ![r].response = Some(ResponseOf(inflight[r], inflight[r].geo[1], inflight[r].crime[1])),
                                    ![r].pc = "done"]
    /\ UNCHANGED random_state
    /\ ConcurrentFrame

InitConcurrent ==
    /\ pc = "concurrent"
    /\ api_key = ""
    /\ address = <<>>
    /\ variant = 1
    /\ calls = <<>>
    /\ geo_result = None
    /\ latitude = PyNone
    /\ longitude = PyNone
    /\ city = None
    /\ crime_result = None
    /\ strategy = <<>>
    /\ crime_source = None
    /\ geo_source = None
    /\ dim = NoDim
    /\ agg = None
    /\ NoRequest
    /\ replies = <<>>
    /\ random_state \in {[stream |-> s, next |-> 1] : s \in RandomStreams}
    /\ inflight \in [RequestIds -> {[pc |-> "geo", payload |-> p, geocoder |-> g, endpoint |-> e,
                                     geo |-> None, crime |-> None, response |-> None] :
                                        p \in ConcurrentPayloads, g \in GeocoderFates, e \in EndpointFates}]

NextConcurrent == \E r \in RequestIds : ConcurrentGeo(r) \/ ConcurrentCrime(r) \/ ConcurrentRespond(r)

SpecConcurrent == InitConcurrent /\ [][NextConcurrent]_vars

\* the response request r gets when it is the only request the process serves
\* from its start, with the same provider answers
AloneResponse(r) ==
    LET fresh == [random_state EXCEPT !.next = 1]
        geo == GeoOf(inflight[r], fresh)
    IN  ResponseOf(inflight[r], geo, CrimeOf(inflight[r], geo))

\* C34: when two requests are processed concurrently, under every
\* interleaving of their stages, no state written while serving one request
\* is read while serving the other: each request's response is the one it
\* would get if processed alone with the same provider responses.
C34_RequestsIsolated ==
    \A r \in RequestIds :
        inflight[r].response # None => inflight[r].response[1] = AloneResponse(r)

\* C35: once the resolvers have returned, the geolocation result and the
\* crime result are not modified by the scorer, the aggregator, the
\* recommendation generator or the response construction; the provenance in
\* api_sources_used and the coordinates of the response are those of the
\* results that were used for scoring and for the confidence.
C35_ResultsImmutable ==
    /\ [][StageNumber(pc) >= 3 => UNCHANGED <<geo_result, crime_result>>]_vars
    /\ [](Responded =>
            /\ response[1].api_sources_used.crime_data = crime_result[1].source
            /\ response[1].api_sources_used.geolocation = geo_result[1].source
            /\ response[1].coordinates = Some([latitude |-> geo_result[1].latitude, longitude |-> geo_result[1].longitude])
            /\ response[1].risk_dimensions =
                  compute_risk_dimensions(crime_result[1], geo_result[1], prop_data[1], payload.property_type,
                                          payload.fenced, payload.gated, payload.operating_hours, payload.notes)
            /\ response[1].confidence =
                  compute_overall_score(response[1].risk_dimensions, Some(response[1].api_sources_used.crime_data),
                                        Some(response[1].api_sources_used.geolocation)).confidence)

\* C35 witness: a response reporting the alternative geocoder and the Chicago
\* endpoint, the sources of the results still held.
C35_Witness ==
    /\ Responded
    /\ geo_result[1].source = "photon"
    /\ crime_result[1].source = "chicago_api_realtime"
    /\ response[1].api_sources_used = [crime_data |-> "chicago_api_realtime", geolocation |-> "photon"]

\* C36: in the request pipeline the crime resolver always receives non-null
\* coordinates, every geolocation result, the simulated ones included,
\* carrying latitude and longitude; so from assess_risk the crime resolver's
\* on-demand geocoding step and its 'simulated' outcome are never reached and
\* the coordinates field of the response is never null.
C36_CoordinatesAlwaysPassed ==
    /\ geo_result # None => (geo_result[1].latitude.kind # "none" /\ geo_result[1].longitude.kind # "none")
    /\ StageNumber(pc) >= 2 => (latitude.kind # "none" /\ longitude.kind # "none")
    /\ pc \notin {"crime:geocode", "crime:simulate"}
    /\ \A i \in 1..Len(strategy) : strategy[i] \in {"city", "estimate", "error"}
    /\ \A i \in 1..Len(calls) : calls[i].provider # "nominatim_on_demand"
    /\ crime_result # None => crime_result[1].source \notin {"simulated", "coordinate_based"}
    /\ Responded => (response[1].coordinates # None /\ response[1].api_sources_used.crime_data # "simulated")

\* C36 witness: every geocoder failed, the crime resolver estimated from the
\* simulated coordinates, and the response carries them.
C36_Witness ==
    /\ Responded
    /\ geo_result[1].source = "simulated_fallback"
    /\ strategy = <<"estimate">>
    /\ response[1].coordinates = Some([latitude |-> latitude, longitude |-> longitude])
    /\ latitude.kind = "num"

---------------------------------------------------------------------------
(* The effect of the fence and the gate, checked under SpecScore *)

\* the dimensions of the same call with the two flags set to f and g
DimWith(f, g) ==
    compute_risk_dimensions(crime_result[1], geo_result[1], prop_data[1], payload.property_type,
                            f, g, payload.operating_hours, payload.notes)

\* the overall score of dimensions d with the sources of this call
OverallOf(d) == compute_overall_score(d, Some(crime_result[1].source), Some(geo_result[1].source)).overall

\* no dimension of d is above that of e, nor is the overall score
NowhereAbove(d, e) ==
    /\ \A k \in DimKeys : d[k] <= e[k]
    /\ OverallOf(d) <= OverallOf(e)

\* C37: with all other inputs fixed, changing fenced from false to true, or
\* gated from false to true, never increases any of the five dimension
\* scores and never increases the overall score.
C37_FenceAndGateNeverRaise ==
    (pc = "score:return") =>
        /\ dim = DimWith(payload.fenced, payload.gated)
        /\ ~payload.fenced => NowhereAbove(DimWith(TRUE, payload.gated), dim)
        /\ ~payload.gated => NowhereAbove(DimWith(payload.fenced, TRUE), dim)

\* C37 witness: an unfenced, ungated property scored, for which the fence
\* lowers exposure, accessibility and the overall score and the gate lowers
\* exposure and the overall score.
C37_Witness ==
    /\ pc = "score:return"
    /\ ~payload.fenced /\ ~payload.gated
    /\ DimWith(TRUE, FALSE).property_exposure_risk < dim.property_exposure_risk
    /\ DimWith(TRUE, FALSE).accessibility_risk < dim.accessibility_risk
    /\ OverallOf(DimWith(TRUE, FALSE)) < OverallOf(dim)
    /\ DimWith(FALSE, TRUE).property_exposure_risk < dim.property_exposure_risk
    /\ OverallOf(DimWith(FALSE, TRUE)) < OverallOf(dim)

=============================================================================
